---- MODULE Spec2Model ----
(***************************************************************************)
(* Rules engine of the "Sevens & Melds" card game: card catalog, deck      *)
(* builder, board model, scoring engine, turn state machine and bot        *)
(* policy, as implemented in src/App.tsx, src/constants.ts and             *)
(* src/unnamed/part_000 (utils/gameLogic).                                 *)
(*                                                                         *)
(* Indices are 0-based as in the source: players is a function over        *)
(* 0..n-1 and player 0 is the human.  Hands, deck, discard pile, melds and *)
(* jokerDeclarations are sequences in source order.                        *)
(***************************************************************************)
EXTENDS Integers, Sequences, FiniteSets, TLC

(***************************************************************************)
(* types.ts / constants.ts : card catalog                                  *)
(***************************************************************************)
HEARTS == "H"
DIAMONDS == "D"
CLUBS == "C"
SPADES == "S"
JOKER_SUIT == "*"

ACE == "A"
SEVEN == "7"
JACK == "J"
QUEEN == "Q"
KING == "K"
JOKER == "JOKER"

MAX_SCORE == 250

SUITS == <<HEARTS, DIAMONDS, CLUBS, SPADES>>

RANKS == <<ACE, "2", "3", "4", "5", "6", SEVEN, "8", "9", "10", JACK, QUEEN, KING>>

Range(s) == {s[i] : i \in 1..Len(s)}

\* Array.prototype.indexOf: 0-based position of the first match, -1 if none.
indexOf(s, x) ==
  IF \E i \in 1..Len(s) : s[i] = x
    THEN (CHOOSE i \in 1..Len(s) : s[i] = x /\ \A j \in 1..(i - 1) : s[j] # x) - 1
    ELSE -1

\* RANKS[i] with a 0-based index i.
rankAt(i) == RANKS[i + 1]

getSortValue(rank) ==
  IF rank = JOKER THEN 99 ELSE indexOf(RANKS, rank) + 1

\* parseInt on the numeral rank strings of the Rank enum.
parseInt(rank) ==
  CASE rank = "2" -> 2 [] rank = "3" -> 3 [] rank = "4" -> 4 [] rank = "5" -> 5
    [] rank = "6" -> 6 [] rank = "7" -> 7 [] rank = "8" -> 8 [] rank = "9" -> 9
    [] rank = "10" -> 10

getPoints(rank) ==
  IF rank = JOKER THEN 30
  ELSE IF rank = SEVEN THEN 15
  ELSE IF rank \in {JACK, QUEEN, KING} THEN 10
  ELSE IF rank = ACE THEN 1
  ELSE parseInt(rank)

(***************************************************************************)
(* A Card is [suit, rank, n]; n tells apart the copies of one (suit, rank) *)
(* (the deck number d, and for jokers 2*d + the joker number), so the      *)
(* triple is the card's unique id.  value, sortValue and isJoker are set   *)
(* at creation from the rank and never change.                             *)
(***************************************************************************)
mkCard(suit, rank, n) == [suit |-> suit, rank |-> rank, n |-> n]

cardId(c) == <<c.suit, c.rank, c.n>>
cardValue(c) == getPoints(c.rank)
sortValue(c) == getSortValue(c.rank)
isJoker(c) == c.rank = JOKER

\* A variant of insertSorted that puts the card in front whatever its sortValue.
insertInFront(s, c) == <<c>> \o s

\* hand.sort((a, b) => a.sortValue - b.sortValue): a stable sort by sortValue.
RECURSIVE insertSorted(_, _)
insertSorted(s, c) ==
  IF s = <<>> THEN <<c>>
  ELSE IF sortValue(Head(s)) <= sortValue(c) THEN <<Head(s)>> \o insertSorted(Tail(s), c)
  ELSE <<c>> \o s

RECURSIVE sortHand(_)
sortHand(s) ==
  IF s = <<>> THEN <<>>
  ELSE insertSorted(sortHand(SubSeq(s, 1, Len(s) - 1)), s[Len(s)])

(***************************************************************************)
(* gameLogic : deck                                                        *)
(***************************************************************************)
\* The 52 ranked cards of deck d in SUITS x RANKS order, then its 2 jokers.
oneDeck(d) ==
  [i \in 1..52 |-> mkCard(SUITS[((i - 1) \div 13) + 1], RANKS[((i - 1) % 13) + 1], d)]
    \o <<mkCard(JOKER_SUIT, JOKER, 2 * d + 1), mkCard(JOKER_SUIT, JOKER, 2 * d + 2)>>

\* createDeck before its final shuffle.
buildDeck(playerCount) ==
  IF playerCount >= 4 THEN oneDeck(0) \o oneDeck(1) ELSE oneDeck(0)

\* shuffle: Fisher-Yates from the back; rnd[k] is the k-th value of
\* Math.floor(Math.random() * currentIndex), so rnd[k] \in 0..currentIndex-1.
\* A variant of swap that copies a[j] over a[i] and leaves a[j].
swapOverwrites(a, i, j) == [a EXCEPT ![i] = a[j]]

swap(a, i, j) == [a EXCEPT ![i] = a[j], ![j] = a[i]]

RECURSIVE shuffleFrom(_, _, _, _)
shuffleFrom(array, currentIndex, rnd, k) ==
  IF currentIndex = 0 THEN array
  ELSE shuffleFrom(swap(array, currentIndex, rnd[k] + 1), currentIndex - 1, rnd, k + 1)

shuffle(array, rnd) == shuffleFrom(array, Len(array), rnd, 1)

(***************************************************************************)
(* gameLogic : board model                                                 *)
(***************************************************************************)
initialSequences ==
  [s \in Range(SUITS) \cup {JOKER_SUIT} |->
     IF s = JOKER_SUIT THEN [low |-> 0, high |-> 0, hasSeven |-> FALSE]
     ELSE [low |-> 7, high |-> 7, hasSeven |-> FALSE]]

\* A variant of canPlayOnBoard that accepts a card only above high.
canPlayOnBoardHighOnly(card, sequences) ==
  IF isJoker(card) THEN TRUE
  ELSE IF card.rank = SEVEN THEN ~sequences[card.suit].hasSeven
  ELSE IF ~sequences[card.suit].hasSeven THEN FALSE
  ELSE sortValue(card) = sequences[card.suit].high + 1

canPlayOnBoard(card, sequences) ==
  IF isJoker(card) THEN TRUE
  ELSE IF card.rank = SEVEN THEN ~sequences[card.suit].hasSeven
  ELSE IF ~sequences[card.suit].hasSeven THEN FALSE
  ELSE sortValue(card) = sequences[card.suit].high + 1
         \/ sortValue(card) = sequences[card.suit].low - 1

getPlayableCards(hand, sequences) ==
  LET ok(c) == canPlayOnBoard(c, sequences) IN SelectSeq(hand, ok)

(***************************************************************************)
(* gameLogic : scoring                                                     *)
(***************************************************************************)
RECURSIVE sumSeq(_)
sumSeq(s) == IF s = <<>> THEN 0 ELSE Head(s) + sumSeq(Tail(s))

calculateHandPoints(hand) == sumSeq([i \in 1..Len(hand) |-> cardValue(hand[i])])

isDeclared(card, jokerDeclarations) ==
  \E k \in 1..Len(jokerDeclarations) :
    /\ jokerDeclarations[k].representedRank = card.rank
    /\ jokerDeclarations[k].representedSuit = card.suit

\* A variant of roundScore that charges 30 for every declaration a card matches
\* instead of 30 for every matching card.
roundScorePerDeclaration(hand, jokerDeclarations) ==
  calculateHandPoints(hand)
    + sumSeq([i \in 1..Len(hand) |->
               IF isJoker(hand[i]) THEN 0
               ELSE 30 * Cardinality({k \in 1..Len(jokerDeclarations) :
                      /\ jokerDeclarations[k].representedRank = hand[i].rank
                      /\ jokerDeclarations[k].representedSuit = hand[i].suit})])

\* The per-player round score of applyFinalScores (its roundScores map).
roundScore(hand, jokerDeclarations) ==
  calculateHandPoints(hand)
    + sumSeq([i \in 1..Len(hand) |->
               IF ~isJoker(hand[i]) /\ isDeclared(hand[i], jokerDeclarations)
                 THEN 30 ELSE 0])

\* A variant of isUndercut in which a tie with the knocker is not an undercut.
isUndercutStrict(roundScores, knockerIndex) ==
  \E i \in DOMAIN roundScores :
    i # knockerIndex /\ roundScores[i] < roundScores[knockerIndex]

isUndercut(roundScores, knockerIndex) ==
  \E i \in DOMAIN roundScores :
    i # knockerIndex /\ roundScores[i] <= roundScores[knockerIndex]

sumOver(f) ==
  LET RECURSIVE go(_)
      go(S) == IF S = {} THEN 0
               ELSE LET x == CHOOSE x \in S : TRUE IN f[x] + go(S \ {x})
  IN go(DOMAIN f)

\* A variant of applyFinalScores in which a knocker who is not undercut scores
\* nothing for the round.
applyFinalScoresKnockerFree(players, knockerIndex, jokerDeclarations) ==
  LET roundScores == [i \in DOMAIN players |-> roundScore(players[i].hand, jokerDeclarations)]
      undercut == isUndercut(roundScores, knockerIndex)
      totalPoints == sumOver(roundScores)
  IN [i \in DOMAIN players |->
        IF i = knockerIndex
          THEN IF undercut THEN [players[i] EXCEPT !.score = @ + totalPoints]
               ELSE players[i]
          ELSE IF undercut THEN players[i]
               ELSE [players[i] EXCEPT !.score = @ + roundScores[i]]]

applyFinalScores(players, knockerIndex, jokerDeclarations) ==
  LET roundScores == [i \in DOMAIN players |-> roundScore(players[i].hand, jokerDeclarations)]
      undercut == isUndercut(roundScores, knockerIndex)
      totalPoints == sumOver(roundScores)
  IN [i \in DOMAIN players |->
        IF undercut
          THEN IF i = knockerIndex
                 THEN [players[i] EXCEPT !.score = @ + totalPoints]
                 ELSE players[i]
          ELSE [players[i] EXCEPT !.score = @ + roundScores[i]]]

(***************************************************************************)
(* State.  gameState is the GameState object of App (replaced wholesale by *)
(* every setGameState); the other variables are App's remaining useState   *)
(* hooks.  The practice (tutorial) mode is outside the model: isTutorial   *)
(* is false throughout.  selectedCards is an input of the handlers that    *)
(* read it (any subset of the hand can be selected by clicking).  logs     *)
(* keeps the last line logged.                                             *)
(*                                                                         *)
(* effects : the useEffect callbacks that React still has to run for the   *)
(*           last commit (those whose dependencies changed); they run      *)
(*           before any further event is handled.                          *)
(* botTimers : the botTurn closures waiting on their 1 s timeout, each     *)
(*           holding the gameState snapshot its effect captured.           *)
(* roundsPlayed : the rounds finished in this behaviour (bounds the model).*)
(* probe   : input/output of the pure functions exercised on their own.    *)
(***************************************************************************)
VARIABLES gameState, playerCount, roundsPlayed, showPongModal, pongTimer, showSingleJokerModal,
          pendingSingleJokerMove, pendingMeldAction, roundSummary,
          effects, botTimers, probe

uiVars == <<showPongModal, pongTimer, showSingleJokerModal, pendingSingleJokerMove,
            pendingMeldAction, roundSummary>>

vars == <<gameState, playerCount, roundsPlayed, showPongModal, pongTimer, showSingleJokerModal,
          pendingSingleJokerMove, pendingMeldAction, roundSummary,
          effects, botTimers, probe>>

NULL == [null |-> TRUE]

\* naturalRank: null of a pending meld of three jokers.
NULL_RANK == "null"

NoProbe == [op |-> "none"]

(***************************************************************************)
(* Bounds of the game model.  The game is played with the cards of         *)
(* createDeck whose (suit, rank) is in DeckCards, DealSize                 *)
(* cards are dealt to each player (the source deals 7), the shuffle draws  *)
(* its random indices from Tapes, and a behaviour starts at the first      *)
(* round of a game or at a later round with scores carried over.           *)
(***************************************************************************)
DealSize == 3

MaxRounds == 1

PlayerCounts == {2, 3, 4}

\* The (suit, rank) pairs of the cards in play.
DeckCards ==
  { <<HEARTS, ACE>>, <<DIAMONDS, ACE>>, <<CLUBS, ACE>>,
    <<HEARTS, "6">>, <<HEARTS, SEVEN>>, <<HEARTS, "8">>,
    <<DIAMONDS, SEVEN>>, <<DIAMONDS, "8">>, <<CLUBS, "8">>,
    <<JOKER_SUIT, JOKER>> }

\* The (suit, rank) pairs in play from the second deck of a game of 4 or more.
SecondDeckCards == { <<JOKER_SUIT, JOKER>> }

\* The deck number d a card was created in.
deckOf(c) == IF isJoker(c) THEN (c.n - 1) \div 2 ELSE c.n

inPlay(c) ==
  IF deckOf(c) = 0 THEN <<c.suit, c.rank>> \in DeckCards
  ELSE <<c.suit, c.rank>> \in SecondDeckCards

\* Each tape is the sequence of values of Math.floor(Math.random() * currentIndex)
\* that one run of shuffle consumes on the cards in play: 11 cards for the
\* first five tapes, the 13 cards of a game of four for the last.
Tapes == <<
  <<10, 8, 3, 5, 5, 1, 4, 0, 1, 0, 0>>,
  <<10, 5, 7, 3, 2, 4, 1, 0, 1, 0, 0>>,
  <<10, 9, 8, 3, 2, 3, 4, 0, 1, 1, 0>>,
  <<10, 5, 4, 0, 3, 5, 4, 2, 2, 0, 0>>,
  <<5, 5, 8, 3, 3, 1, 4, 0, 1, 0, 0>>,
  <<8, 5, 2, 1, 7, 4, 0, 4, 0, 3, 0, 0, 0>>
>>

\* The tapes (indices into Tapes) that the shuffle of a following round draws from.
NextTapes == {3, 6}

\* The values of pongTimer at which the human answers the pong modal.
ClickTimes == {10}

\* Scores carried into a later round, per player index.
CarriedScores == { <<0, 245>>, <<0, 245, 100>> }

cardsInPlay(pc) == LET keep(c) == inPlay(c) IN SelectSeq(buildDeck(pc), keep)

createDeck(pc, rnd) == shuffle(cardsInPlay(pc), rnd)

\* Tape t is a run of the shuffle on the deck of a game of pc players.
tapeFits(t, pc) == Len(Tapes[t]) = Len(cardsInPlay(pc))

(***************************************************************************)
(* startGame / startNextRound : dealing                                    *)
(***************************************************************************)
\* deck.splice(0, DealSize) for players 0..n-1 in turn, each hand then sorted.
\* splice takes the cards that are left when fewer than DealSize remain.
upTo(k, n) == IF k < n THEN k ELSE n

dealtHand(deck, i) ==
  sortHand(SubSeq(deck, upTo(i * DealSize, Len(deck)) + 1,
                  upTo((i + 1) * DealSize, Len(deck))))

\* A variant of afterDeal that leaves the dealt cards in the deck.
afterDealKeepsAll(deck, n) == deck

afterDeal(deck, n) == SubSeq(deck, upTo(n * DealSize, Len(deck)) + 1, Len(deck))

newRound(pc, rnd, scores, startIndex, roundNo, lastLog) ==
  LET deck == createDeck(pc, rnd) IN
  [ players |-> [i \in 0..(pc - 1) |->
                   [id |-> i, hand |-> dealtHand(deck, i), score |-> scores[i + 1],
                    melds |-> <<>>]],
    currentPlayerIndex |-> startIndex,
    deck |-> afterDeal(deck, pc),
    discardPile |-> <<>>,
    boardSequences |-> initialSequences,
    turnPhase |-> "ACTION",
    round |-> roundNo,
    winner |-> NULL,
    logs |-> lastLog,
    pendingPong |-> NULL,
    jokerDeclarations |-> <<>> ]

(***************************************************************************)
(* Small helpers for the handlers                                          *)
(***************************************************************************)
human == gameState.players[0]

\* A variant of withoutCards that leaves the jokers in the hand.
withoutCardsKeepsJokers(hand, cards) ==
  LET keep(c) == isJoker(c) \/ \A k \in 1..Len(cards) : cardId(cards[k]) # cardId(c)
  IN SelectSeq(hand, keep)

\* hand.filter(c => !cards.some(played => played.id === c.id))
withoutCards(hand, cards) ==
  LET keep(c) == \A k \in 1..Len(cards) : cardId(cards[k]) # cardId(c) IN SelectSeq(hand, keep)

naturalsOf(cards) == LET nat(c) == ~isJoker(c) IN SelectSeq(cards, nat)
jokersOf(cards) == LET jk(c) == isJoker(c) IN SelectSeq(cards, jk)

\* A variant of setHuman that replaces the hand and leaves the melds as they were.
setHumanKeepsMelds(gs, newHand, newMelds) ==
  [gs.players EXCEPT ![0] = [@ EXCEPT !.hand = newHand]]

setHuman(gs, newHand, newMelds) ==
  [gs.players EXCEPT ![0] = [@ EXCEPT !.hand = newHand, !.melds = newMelds]]

startedSuits(sequences) ==
  LET started(s) == sequences[s].hasSeven IN SelectSeq(SUITS, started)

\* A variant of extend whose first update writes low instead of high.
extendWrongEnd(seq, val) ==
  LET s1 == IF val = seq.high + 1 THEN [seq EXCEPT !.low = val] ELSE seq
  IN  IF val = s1.low - 1 THEN [s1 EXCEPT !.low = val] ELSE s1

\* The two in-place updates every extension performs on the suit's sequence.
\* A variant of extend that moves both ends outward.
extendBothEnds(seq, val) == [seq EXCEPT !.high = @ + 1, !.low = @ - 1]

extend(seq, val) ==
  LET s1 == IF val = seq.high + 1 THEN [seq EXCEPT !.high = val] ELSE seq
  IN  IF val = s1.low - 1 THEN [s1 EXCEPT !.low = val] ELSE s1

\* No effect is waiting to run, and the round is one the model explores.
idle == effects = {} /\ roundsPlayed < MaxRounds

(***************************************************************************)
(* Which controls are on screen.  Every Modal covers the viewport, so the  *)
(* controls under an open modal cannot be clicked.                         *)
(***************************************************************************)
pongModalShown == showPongModal /\ pendingMeldAction = NULL

modalOpen ==
  \/ pongModalShown
  \/ showSingleJokerModal
  \/ pendingMeldAction # NULL
  \/ roundSummary # NULL
  \/ gameState.turnPhase = "GAME_OVER"


actionControls ==
  idle /\ ~modalOpen /\ gameState.turnPhase = "ACTION" /\ gameState.currentPlayerIndex = 0

discardControls ==
  idle /\ ~modalOpen /\ gameState.turnPhase = "DISCARD" /\ gameState.currentPlayerIndex = 0

(***************************************************************************)
(* useEffect bookkeeping                                                   *)
(***************************************************************************)
\* The guard of the bot effect (App.tsx 681-683); gameStarted is true in every
\* state of the model.
botCanStart(gs) ==
  /\ gs.turnPhase \notin {"GAME_OVER", "ROUND_OVER"}
  /\ gs.currentPlayerIndex # 0
  /\ gs.pendingPong = NULL

\* The effects that have something to do after a commit: gsChanged says that
\* setGameState ran (the bot effect depends on processRoundEnd, which is rebuilt
\* for every new gameState), ppNew that gameState.pendingPong is a new object.
effectsAfter(gsChanged, ppNew, gs2, spm1, spm2, pt1, pt2) ==
  (IF (spm1 # spm2 \/ pt1 # pt2) /\ spm2 /\ pt2 = 0 THEN {"timer"} ELSE {})
    \cup (IF spm1 # spm2 /\ spm2 /\ pt2 # 10 THEN {"reset"} ELSE {})
    \cup (IF ppNew /\ gs2.pendingPong # NULL THEN {"pong"} ELSE {})
    \cup (IF gsChanged /\ botCanStart(gs2) THEN {"bot"} ELSE {})

\* A handler that only replaces gameState (no new pendingPong, no modal change).
commitGame(gs2) ==
  /\ gameState' = gs2
  /\ effects' = effectsAfter(TRUE, FALSE, gs2, showPongModal, showPongModal,
                             pongTimer, pongTimer)

addLog(msg) == commitGame([gameState EXCEPT !.logs = msg])

(***************************************************************************)
(* Human handlers                                                          *)
(***************************************************************************)
\* The hand cards whose index is in sel, in hand order
\* (player.hand.filter(c => selectedCards.includes(c.id))).
selected(hand, sel) ==
  LET RECURSIVE pick(_)
      pick(i) == IF i > Len(hand) THEN <<>>
                 ELSE (IF i \in sel THEN <<hand[i]>> ELSE <<>>) \o pick(i + 1)
  IN pick(1)

\* A variant of playNatural that takes every natural card of a started suit.
playNaturalAnyCard(card, sequences) ==
  IF card.rank = SEVEN /\ ~sequences[card.suit].hasSeven
    THEN [sequences EXCEPT ![card.suit].hasSeven = TRUE]
  ELSE IF sequences[card.suit].hasSeven
    THEN [sequences EXCEPT ![card.suit] = extend(@, sortValue(card))]
  ELSE NULL

\* playSelectedCards, Case A, "Standard Card Handling": the board after the card,
\* or NULL when the card is not valid.
playNatural(card, sequences) ==
  IF card.rank = SEVEN /\ ~sequences[card.suit].hasSeven
    THEN [sequences EXCEPT ![card.suit].hasSeven = TRUE]
  ELSE IF canPlayOnBoard(card, sequences)
    THEN [sequences EXCEPT ![card.suit] = extend(@, sortValue(card))]
  ELSE NULL

playSelectedCards(sel) ==
  LET player == human
      cardsToPlay == selected(player.hand, sel)
      card == cardsToPlay[1]
      nonJokers == naturalsOf(cardsToPlay)
      jokers == jokersOf(cardsToPlay)
      targetRank == nonJokers[1].rank
      newSequences == playNatural(card, gameState.boardSequences)
  IN
  IF Len(cardsToPlay) = 1 /\ isJoker(card)
    THEN IF startedSuits(gameState.boardSequences) = <<>>
           THEN /\ addLog("Jokers cannot be played as 7s. No sequences to extend.")
                /\ UNCHANGED uiVars
           ELSE /\ pendingSingleJokerMove' = [card |-> card, context |-> "SEQUENCE"]
                /\ showSingleJokerModal' = TRUE
                /\ UNCHANGED <<gameState, effects, showPongModal, pongTimer,
                               pendingMeldAction, roundSummary>>
  ELSE IF Len(cardsToPlay) = 1 /\ newSequences # NULL
    THEN /\ commitGame([gameState EXCEPT
                          !.players = setHuman(gameState, withoutCards(player.hand, <<card>>),
                                               player.melds),
                          !.boardSequences = newSequences,
                          !.logs = "You played a card"])
         /\ UNCHANGED uiVars
  ELSE IF Len(cardsToPlay) = 3
    THEN IF Len(nonJokers) > 0
           THEN IF \E k \in 1..Len(nonJokers) : nonJokers[k].rank # targetRank
                  THEN addLog("Invalid Meld: ranks do not match.") /\ UNCHANGED uiVars
                ELSE IF targetRank = SEVEN /\ Len(jokers) > 0
                  THEN addLog("Invalid Meld: Joker cannot be used as a 7.")
                       /\ UNCHANGED uiVars
                ELSE IF Len(jokers) > 0
                  THEN /\ pendingMeldAction' =
                            [type |-> "MELD", cards |-> cardsToPlay,
                             naturalRank |-> targetRank, jokersCount |-> Len(jokers)]
                       /\ UNCHANGED <<gameState, effects, showPongModal, pongTimer,
                                      showSingleJokerModal, pendingSingleJokerMove,
                                      roundSummary>>
                ELSE /\ commitGame([gameState EXCEPT
                          !.players = setHuman(gameState,
                                               withoutCards(player.hand, cardsToPlay),
                                               Append(player.melds, cardsToPlay)),
                          !.logs = "You melded three"])
                     /\ UNCHANGED uiVars
           ELSE /\ pendingMeldAction' =
                     [type |-> "MELD", cards |-> cardsToPlay,
                      naturalRank |-> NULL_RANK, jokersCount |-> 3]
                /\ UNCHANGED <<gameState, effects, showPongModal, pongTimer,
                               showSingleJokerModal, pendingSingleJokerMove, roundSummary>>
  ELSE addLog("Invalid move!") /\ UNCHANGED uiVars

MaxSelect == 4

PlaySelectedCards ==
  /\ actionControls
  /\ \E sel \in SUBSET (1..Len(human.hand)) :
       /\ sel # {}
       /\ Cardinality(sel) <= MaxSelect
       /\ playSelectedCards(sel)
  /\ UNCHANGED <<playerCount, roundsPlayed, botTimers, probe>>

\* A variant of singleJokerOptions that offers every rank but the seven on
\* every started suit.
singleJokerOptionsAnyRank(sequences) ==
  { <<s, r>> \in Range(SUITS) \X Range(RANKS) : sequences[s].hasSeven /\ r # SEVEN }

\* The buttons of the "Declare Joker" modal: for every started suit, the rank
\* below low and the rank above high, sevens filtered out.
singleJokerOptions(sequences) ==
  { <<s, r>> \in Range(SUITS) \X Range(RANKS) :
      /\ sequences[s].hasSeven
      /\ r # SEVEN
      /\ \/ sequences[s].low - 1 >= 1 /\ r = RANKS[sequences[s].low - 1]
         \/ sequences[s].high + 1 <= 13 /\ r = RANKS[sequences[s].high + 1] }

confirmSingleJokerMove(declaredSuit, declaredRank) ==
  LET card == pendingSingleJokerMove.card
      val == getSortValue(declaredRank)
      newSequences == [gameState.boardSequences EXCEPT ![declaredSuit] = extend(@, val)]
      newDeclaration == [cardId |-> card.n, representedSuit |-> declaredSuit,
                         representedRank |-> declaredRank]
  IN
  IF pendingSingleJokerMove = NULL \/ declaredRank = SEVEN
    THEN UNCHANGED <<gameState, effects, uiVars>>
    ELSE /\ commitGame([gameState EXCEPT
                          !.players = setHuman(gameState, withoutCards(human.hand, <<card>>),
                                               human.melds),
                          !.boardSequences = newSequences,
                          !.jokerDeclarations = Append(@, newDeclaration),
                          !.logs = "You played Joker"])
         /\ showSingleJokerModal' = FALSE
         /\ pendingSingleJokerMove' = NULL
         /\ UNCHANGED <<showPongModal, pongTimer, pendingMeldAction, roundSummary>>

ConfirmSingleJokerMove ==
  /\ idle
  /\ showSingleJokerModal
  /\ \E o \in singleJokerOptions(gameState.boardSequences) : confirmSingleJokerMove(o[1], o[2])
  /\ UNCHANGED <<playerCount, roundsPlayed, botTimers, probe>>

\* The close button of the "Declare Joker" modal.
CloseSingleJokerModal ==
  /\ idle
  /\ showSingleJokerModal
  /\ showSingleJokerModal' = FALSE
  /\ UNCHANGED <<gameState, playerCount, roundsPlayed, showPongModal, pongTimer, pendingSingleJokerMove,
                 pendingMeldAction, roundSummary, effects, botTimers, probe>>

(***************************************************************************)
(* The "Joker Declaration" dialog (JokerDeclarationContent).  Its state is *)
(* the declarations array, one {suit, rank} per joker, suit null at first; *)
(* the dialog is mounted when the pending action is set.                   *)
(***************************************************************************)
NO_SUIT == "null"

\* The ranks picked in the rank list of a meld of three jokers.
MeldRanks == {ACE, "8"}

usedSuits(pma) == {c.suit : c \in Range(naturalsOf(pma.cards))}

\* A variant of forbidden that disables only the suits of the natural cards.
forbiddenNaturalsOnly(pma, declarations, idx) == usedSuits(pma)

\* The suits whose button is disabled for joker idx.
forbidden(pma, declarations, idx) ==
  usedSuits(pma)
    \cup {declarations[i].suit :
            i \in {j \in 1..Len(declarations) : j # idx /\ declarations[j].suit # NO_SUIT}}

toggleSuit(declarations, jokerIdx, suit) ==
  [declarations EXCEPT ![jokerIdx] = [@ EXCEPT !.suit = suit]]

canConfirm(declarations, selectedRank) ==
  /\ \A i \in 1..Len(declarations) : declarations[i].suit # NO_SUIT
  /\ selectedRank # SEVEN

\* A variant of freshDeclarations that fills in the seven as the rank.
freshDeclarationsOfSeven(pma, selectedRank) ==
  [i \in 1..pma.jokersCount |-> [suit |-> NO_SUIT, rank |-> SEVEN]]

\* Array(jokersCount).fill({ suit: null, rank: naturalRank || selectedRank })
freshDeclarations(pma, selectedRank) ==
  [i \in 1..pma.jokersCount |->
     [suit |-> NO_SUIT,
      rank |-> IF pma.naturalRank # NULL_RANK THEN pma.naturalRank ELSE selectedRank]]

\* S and what one click on an enabled suit button makes of a member of S.
clicks(pma, S) ==
  S \cup {toggleSuit(x[1], x[2], x[3]) :
            x \in {y \in S \X (1..pma.jokersCount) \X Range(SUITS) :
                     y[3] \notin forbidden(pma, y[1], y[2])}}

\* The states of the dialog that clicks on suit buttons lead to from S.
RECURSIVE dialogStates(_, _)
dialogStates(pma, S) ==
  IF clicks(pma, S) = S THEN S ELSE dialogStates(pma, clicks(pma, S))

\* The rank list is shown for a meld of three jokers and offers every rank but
\* the seven; selectedRank starts at the natural rank, or at the ace.
selectableRanks(pma) ==
  IF pma.naturalRank # NULL_RANK THEN {pma.naturalRank}
  ELSE {r \in Range(RANKS) : r # SEVEN /\ r # JOKER} \cap MeldRanks

\* The declarations the Confirm button can be clicked with.
declarationChoices(pma) ==
  UNION {{d \in dialogStates(pma, {freshDeclarations(pma, r)}) : canConfirm(d, r)} :
           r \in selectableRanks(pma)}

confirmMeldWithJokers(declarations) ==
  LET cards == pendingMeldAction.cards
      player == human
      jokersInMeld == jokersOf(cards)
      newJokerDeclarations ==
        [idx \in 1..Len(jokersInMeld) |->
           [cardId |-> jokersInMeld[idx].n,
            representedSuit |-> declarations[idx].suit,
            representedRank |-> declarations[idx].rank]]
      newHand == withoutCards(player.hand, cards)
      newMelds == Append(player.melds, cards)
      hasDiscardCard ==
        \E k \in 1..Len(cards) :
          \A h \in 1..Len(player.hand) : cardId(player.hand[h]) # cardId(cards[k])
      \* declarations[idx] is undefined for a joker beyond jokersCount, and
      \* reading its suit throws.
      throws == Len(jokersInMeld) > Len(declarations)
  IN
  IF throws
    THEN UNCHANGED <<gameState, effects, uiVars>>
  ELSE IF pendingMeldAction.type = "MELD"
    THEN /\ commitGame([gameState EXCEPT
                          !.players = setHuman(gameState, newHand, newMelds),
                          !.jokerDeclarations = @ \o newJokerDeclarations,
                          !.logs = "You melded with Jokers"])
         /\ pendingMeldAction' = NULL
         /\ showPongModal' = FALSE
         /\ UNCHANGED <<pongTimer, showSingleJokerModal, pendingSingleJokerMove, roundSummary>>
  ELSE IF ~hasDiscardCard
    THEN UNCHANGED <<gameState, effects, uiVars>>
  ELSE /\ commitGame([gameState EXCEPT
                          !.players = setHuman(gameState, newHand, newMelds),
                          !.discardPile = Tail(@),
                          !.turnPhase = "ACTION",
                          !.currentPlayerIndex = 0,
                          !.pendingPong = NULL,
                          !.jokerDeclarations = @ \o newJokerDeclarations,
                          !.logs = "You Ponged with Jokers"])
       /\ pendingMeldAction' = NULL
       /\ showPongModal' = FALSE
       /\ UNCHANGED <<pongTimer, showSingleJokerModal, pendingSingleJokerMove, roundSummary>>

ConfirmMeldWithJokers ==
  /\ idle
  /\ pendingMeldAction # NULL
  /\ \E d \in declarationChoices(pendingMeldAction) : confirmMeldWithJokers(d)
  /\ UNCHANGED <<playerCount, roundsPlayed, botTimers, probe>>

\* The close button of the "Joker Declaration" modal: setPendingMeldAction(null).
CloseMeldModal ==
  /\ idle
  /\ pendingMeldAction # NULL
  /\ pendingMeldAction' = NULL
  /\ UNCHANGED <<gameState, playerCount, roundsPlayed, showPongModal, pongTimer,
                 showSingleJokerModal, pendingSingleJokerMove, roundSummary, effects,
                 botTimers, probe>>

\* A variant of drawCard that only logs on an empty deck and stays in ACTION.
drawCardWaitsOnEmptyDeck ==
  LET deck == gameState.deck
      idx == gameState.currentPlayerIndex
      card == Head(deck)
  IN
  IF gameState.turnPhase # "ACTION" THEN UNCHANGED <<gameState, effects>>
  ELSE IF Len(deck) = 0 THEN addLog("Deck empty! Skipping draw.")
  ELSE commitGame([gameState EXCEPT
                     !.deck = Tail(deck),
                     !.players[idx].hand = sortHand(Append(@, card)),
                     !.turnPhase = "DISCARD",
                     !.logs = "You drew a card."])

drawCard ==
  LET deck == gameState.deck
      idx == gameState.currentPlayerIndex
      card == Head(deck)
  IN
  IF gameState.turnPhase # "ACTION" THEN UNCHANGED <<gameState, effects>>
  ELSE IF Len(deck) = 0
    \* addLog's line is overwritten by setGameState({...gameState, turnPhase})
    THEN commitGame([gameState EXCEPT !.turnPhase = "DISCARD"])
  ELSE commitGame([gameState EXCEPT
                     !.deck = Tail(deck),
                     !.players[idx].hand = sortHand(Append(@, card)),
                     !.turnPhase = "DISCARD",
                     !.logs = "You drew a card."])

DrawCard ==
  /\ actionControls
  /\ drawCard
  /\ UNCHANGED <<uiVars, playerCount, roundsPlayed, botTimers, probe>>

\* discardCard with selectedCards = [hand[i].id].
discardCard(i) ==
  LET player == human
      card == player.hand[i]
      nextPlayerIdx == (gameState.currentPlayerIndex + 1) % Cardinality(DOMAIN gameState.players)
      gs2 == [gameState EXCEPT
                !.players = setHuman(gameState, withoutCards(player.hand, <<card>>),
                                     player.melds),
                !.discardPile = <<card>> \o @,
                !.currentPlayerIndex = nextPlayerIdx,
                !.turnPhase = "ACTION",
                !.logs = "You discarded",
                !.pendingPong = [card |-> card, discarderIndex |-> 0]]
  IN
  IF gameState.turnPhase # "DISCARD" THEN UNCHANGED <<gameState, effects>>
  ELSE /\ gameState' = gs2
       /\ effects' = effectsAfter(TRUE, TRUE, gs2, showPongModal, showPongModal,
                                  pongTimer, pongTimer)

DiscardCard ==
  /\ discardControls
  /\ \E i \in 1..Len(human.hand) : discardCard(i)
  /\ UNCHANGED <<uiVars, playerCount, roundsPlayed, botTimers, probe>>

(***************************************************************************)
(* Round end                                                               *)
(***************************************************************************)
\* A variant of summaryOf whose updatedPlayers have the round's points added a
\* second time.
summaryOfScoredTwice(previousPlayers, updatedPlayers, knockerIdx) ==
  [ roundPoints |-> [i \in DOMAIN updatedPlayers |->
                       updatedPlayers[i].score - previousPlayers[i].score],
    previousScores |-> [i \in DOMAIN previousPlayers |-> previousPlayers[i].score],
    updatedPlayers |-> [i \in DOMAIN updatedPlayers |->
                          [updatedPlayers[i] EXCEPT
                             !.score = @ + (@ - previousPlayers[i].score)]],
    knockerIndex |-> knockerIdx ]

summaryOf(previousPlayers, updatedPlayers, knockerIdx) ==
  [ roundPoints |-> [i \in DOMAIN updatedPlayers |->
                       updatedPlayers[i].score - previousPlayers[i].score],
    previousScores |-> [i \in DOMAIN previousPlayers |-> previousPlayers[i].score],
    updatedPlayers |-> updatedPlayers,
    knockerIndex |-> knockerIdx ]

processRoundEnd(currentPlayers, knockerIdx) ==
  LET updatedPlayers == applyFinalScores(currentPlayers, knockerIdx,
                                         gameState.jokerDeclarations)
  IN /\ commitGame([gameState EXCEPT !.players = updatedPlayers,
                                     !.turnPhase = "ROUND_OVER",
                                     !.logs = "knocked"])
     /\ roundSummary' = summaryOf(currentPlayers, updatedPlayers, knockerIdx)

\* A variant of handleKnock without the check of the points.
handleKnockUnchecked == processRoundEnd(gameState.players, 0)

handleKnock ==
  IF calculateHandPoints(human.hand) > 5
    THEN addLog("Cannot knock!") /\ UNCHANGED roundSummary
    ELSE processRoundEnd(gameState.players, 0)

\* The KNOCK button sits in the ACTION controls and is rendered while the hand
\* points are 5 or less; the handler checks the points again, and the action
\* covers a call of the handler with any hand, so that its own check decides.
HandleKnock ==
  /\ actionControls
  /\ handleKnock
  /\ UNCHANGED <<showPongModal, pongTimer, showSingleJokerModal, pendingSingleJokerMove,
                 pendingMeldAction, playerCount, roundsPlayed, botTimers, probe>>

\* A variant of isGameOver that ends the game only when every player is at the ceiling.
isGameOverEvery(updatedPlayers) ==
  \A i \in DOMAIN updatedPlayers : updatedPlayers[i].score >= MAX_SCORE

isGameOver(updatedPlayers) ==
  \E i \in DOMAIN updatedPlayers : updatedPlayers[i].score >= MAX_SCORE

\* updatedPlayers.reduce((prev, curr) => prev.score < curr.score ? prev : curr)
pickWinner(updatedPlayers) ==
  LET n == Cardinality(DOMAIN updatedPlayers)
      RECURSIVE reduce(_, _)
      reduce(prev, i) ==
        IF i >= n THEN prev
        ELSE reduce(IF prev.score < updatedPlayers[i].score THEN prev
                    ELSE updatedPlayers[i], i + 1)
  IN reduce(updatedPlayers[0], 1)

startNextRound(t) ==
  LET updatedPlayers == roundSummary.updatedPlayers
      n == Cardinality(DOMAIN updatedPlayers)
      scores == [i \in 1..n |-> updatedPlayers[i - 1].score]
      gs2 == newRound(n, Tapes[t], scores, gameState.round % n, gameState.round + 1,
                      "Round Started")
  IN
  IF isGameOver(updatedPlayers)
    THEN /\ commitGame([gameState EXCEPT !.winner = pickWinner(updatedPlayers),
                                         !.turnPhase = "GAME_OVER",
                                         !.logs = "Game Over!"])
         /\ roundSummary' = NULL
         /\ UNCHANGED roundsPlayed
    ELSE /\ commitGame(gs2)
         /\ roundSummary' = NULL
         /\ roundsPlayed' = roundsPlayed + 1

StartNextRound ==
  /\ effects = {}
  /\ roundsPlayed < MaxRounds
  /\ roundSummary # NULL
  /\ \E t \in NextTapes :
       /\ tapeFits(t, Cardinality(DOMAIN gameState.players))
       /\ startNextRound(t)
  /\ UNCHANGED <<showPongModal, pongTimer, showSingleJokerModal, pendingSingleJokerMove,
                 pendingMeldAction, playerCount, botTimers, probe>>

\* "Play Again" on the Game Over modal.
startGame(t) ==
  /\ commitGame(newRound(playerCount, Tapes[t], [i \in 1..playerCount |-> 0], 0, 1,
                         "Game started! Good luck."))
  /\ roundSummary' = NULL

StartGame ==
  /\ effects = {}
  /\ gameState.turnPhase = "GAME_OVER"
  /\ \E t \in 1..Len(Tapes) : tapeFits(t, playerCount) /\ startGame(t)
  /\ roundsPlayed' = 0
  /\ UNCHANGED <<showPongModal, pongTimer, showSingleJokerModal, pendingSingleJokerMove,
                 pendingMeldAction, playerCount, botTimers, probe>>

(***************************************************************************)
(* Pong (claim) window                                                     *)
(***************************************************************************)
PONG_SECONDS == 10

\* A variant of naturalMatchesOf that does not compare the ranks.
naturalMatchesOfAnyRank(hand, rank) ==
  LET m(c) == ~isJoker(c) IN SelectSeq(hand, m)

naturalMatchesOf(hand, rank) ==
  LET m(c) == c.rank = rank /\ ~isJoker(c) IN SelectSeq(hand, m)

\* cancelPong: setShowPongModal(false); setGameState(prev => {...prev, pendingPong: null}).
\* lastLog is the line an addLog queued before it left in logs.
cancelPong(lastLog) ==
  LET gs2 == [gameState EXCEPT !.pendingPong = NULL, !.logs = lastLog] IN
  /\ showPongModal' = FALSE
  /\ gameState' = gs2
  /\ effects' = effectsAfter(TRUE, FALSE, gs2, showPongModal, FALSE, pongTimer, pongTimer)
  /\ UNCHANGED <<pongTimer, showSingleJokerModal, pendingSingleJokerMove,
                 pendingMeldAction, roundSummary>>

\* The manual Pass button of the pong modal.
CancelPong ==
  /\ idle
  /\ pongModalShown
  /\ pongTimer \in ClickTimes
  /\ cancelPong(gameState.logs)
  /\ UNCHANGED <<playerCount, roundsPlayed, botTimers, probe>>

\* A variant of sevenWithJoker that lets a single joker through.
sevenWithTwoJokers(discard, jokersInvolved) ==
  discard.rank = SEVEN /\ Len(jokersInvolved) > 1

\* doPong's test of a claim on a seven that uses a joker.
sevenWithJoker(discard, jokersInvolved) ==
  discard.rank = SEVEN /\ Len(jokersInvolved) > 0

doPong ==
  LET hand == human.hand
      discard == gameState.pendingPong.card
      naturalMatches == naturalMatchesOf(hand, discard.rank)
      jokers == jokersOf(hand)
      \* jokers[0] of an empty array is undefined, and reading its isJoker throws.
      throws == Len(naturalMatches) = 1 /\ Len(jokers) = 0
      cardsToUse ==
        IF Len(naturalMatches) >= 2 THEN SubSeq(naturalMatches, 1, 2)
        ELSE IF Len(naturalMatches) = 1 THEN <<naturalMatches[1], jokers[1]>>
        ELSE SubSeq(jokers, 1, IF Len(jokers) < 2 THEN Len(jokers) ELSE 2)
      jokersInvolved == jokersOf(cardsToUse)
      totalCards == cardsToUse \o <<discard>>
  IN
  IF gameState.pendingPong = NULL \/ throws
    THEN UNCHANGED <<gameState, effects, uiVars>>
  ELSE IF sevenWithJoker(discard, jokersInvolved)
    THEN cancelPong("Cannot use Joker to Pong a 7.")
  ELSE IF Len(jokersInvolved) > 0
    THEN /\ pendingMeldAction' = [type |-> "PONG", cards |-> totalCards,
                                  naturalRank |-> discard.rank,
                                  jokersCount |-> Len(jokersInvolved)]
         /\ showPongModal' = FALSE
         /\ effects' = effectsAfter(FALSE, FALSE, gameState, showPongModal, FALSE,
                                    pongTimer, pongTimer)
         /\ UNCHANGED <<gameState, pongTimer, showSingleJokerModal,
                        pendingSingleJokerMove, roundSummary>>
  ELSE LET gs2 == [gameState EXCEPT
                     !.players = setHuman(gameState, withoutCards(hand, cardsToUse),
                                          Append(human.melds, totalCards)),
                     !.discardPile = Tail(@),
                     !.currentPlayerIndex = 0,
                     !.turnPhase = "ACTION",
                     !.pendingPong = NULL,
                     !.logs = "You Ponged! Turn is yours."]
       IN /\ gameState' = gs2
          /\ showPongModal' = FALSE
          /\ effects' = effectsAfter(TRUE, FALSE, gs2, showPongModal, FALSE,
                                     pongTimer, pongTimer)
          /\ UNCHANGED <<pongTimer, showSingleJokerModal, pendingSingleJokerMove,
                         pendingMeldAction, roundSummary>>

DoPong ==
  /\ idle
  /\ pongModalShown
  /\ pongTimer \in ClickTimes
  /\ doPong
  /\ UNCHANGED <<playerCount, roundsPlayed, botTimers, probe>>

\* The 1 s timeout of the countdown effect: setPongTimer(t => t - 1).
Tick ==
  /\ idle
  /\ showPongModal
  /\ pongTimer > 0
  /\ pongTimer' = pongTimer - 1
  /\ effects' = effectsAfter(FALSE, FALSE, gameState, showPongModal, showPongModal,
                             pongTimer, pongTimer - 1)
  /\ UNCHANGED <<gameState, playerCount, roundsPlayed, showPongModal, showSingleJokerModal,
                 pendingSingleJokerMove, pendingMeldAction, roundSummary, botTimers, probe>>

(***************************************************************************)
(* The useEffect callbacks, run in source order on the committed state;    *)
(* the state updates they queue are applied together afterwards.           *)
(***************************************************************************)
\* Countdown effect (571-578) at pongTimer = 0: cancelPong().
timerFires == "timer" \in effects /\ showPongModal /\ pongTimer = 0

\* Reset effect (580-582): setPongTimer(10).
resetFires == "reset" \in effects /\ showPongModal

\* Pong detection effect (584-608).
pongFires == "pong" \in effects /\ gameState.pendingPong # NULL

humanCanPong ==
  LET rank == gameState.pendingPong.card.rank
  IN Len(naturalMatchesOf(human.hand, rank)) + Len(jokersOf(human.hand)) >= 2

\* A variant of pongOpens that also opens the claim window on the human's own discard.
pongOpensOnOwnDiscard == pongFires /\ humanCanPong

pongOpens == pongFires /\ gameState.pendingPong.discarderIndex # 0 /\ humanCanPong

pongClears == pongFires /\ ~pongOpens

\* Bot effect (680-880): botTurn() starts and waits on its timeout.
botFires == "bot" \in effects /\ botCanStart(gameState)

RunEffects ==
  LET clears == timerFires \/ pongClears
      gs2 == IF clears THEN [gameState EXCEPT !.pendingPong = NULL] ELSE gameState
      spm2 == IF pongOpens THEN TRUE ELSE IF timerFires THEN FALSE ELSE showPongModal
      pt2 == IF resetFires THEN PONG_SECONDS ELSE pongTimer
  IN
  /\ effects # {}
  /\ roundsPlayed < MaxRounds
  /\ gameState' = gs2
  /\ showPongModal' = spm2
  /\ pongTimer' = pt2
  /\ botTimers' = IF botFires THEN Append(botTimers, gameState) ELSE botTimers
  /\ effects' = effectsAfter(clears, FALSE, gs2, showPongModal, spm2, pongTimer, pt2)
  /\ UNCHANGED <<playerCount, roundsPlayed, showSingleJokerModal, pendingSingleJokerMove,
                 pendingMeldAction, roundSummary, probe>>

(***************************************************************************)
(* Bot policy (botTurn, App.tsx 723-876).  The greedy loop works on the    *)
(* locals newHand, newMelds, newSequences and newJokerDeclarations; st is  *)
(* the record of those locals and botStep one pass of the while loop.      *)
(***************************************************************************)
NumeralRanks == <<"2", "3", "4", "5", "6", SEVEN, "8", "9", "10">>

\* The keys of rankCounts in for-in order: integer-like keys ascending, then
\* the other keys in insertion order (the order of first occurrence in the hand).
rankKeyOrder(hand) ==
  LET nats == naturalsOf(hand)
      present(r) == \E k \in 1..Len(nats) : nats[k].rank = r
      letter(r) == r \in {ACE, JACK, QUEEN, KING} /\ present(r)
      firstAt(r) == CHOOSE k \in 1..Len(nats) :
                      nats[k].rank = r /\ \A j \in 1..(k - 1) : nats[j].rank # r
      letters == {r \in {ACE, JACK, QUEEN, KING} : present(r)}
      RECURSIVE byFirst(_)
      byFirst(S) == IF S = {} THEN <<>>
                    ELSE LET r == CHOOSE r \in S : \A q \in S : firstAt(r) <= firstAt(q)
                         IN <<r>> \o byFirst(S \ {r})
  IN SelectSeq(NumeralRanks, present) \o byFirst(letters)

\* Step 1 of the loop: the first rank in key order with 3 or more naturals.
meldRank(hand) ==
  LET keys == rankKeyOrder(hand)
      enough(r) == Len(naturalMatchesOf(hand, r)) >= 3
      hit == SelectSeq(keys, enough)
  IN IF hit = <<>> THEN NULL ELSE [rank |-> hit[1]]

\* A variant of botTargetRank that looks at the high end only.
botTargetRankHighOnly(seq) ==
  IF seq.high < 13 THEN [rank |-> rankAt(seq.high)] ELSE NULL

\* The joker branch: the rank the bot declares on a sequence, or NULL.
botTargetRank(seq) ==
  IF seq.high < 13 THEN [rank |-> rankAt(seq.high)]
  ELSE IF seq.low > 1 THEN [rank |-> rankAt(seq.low - 2)]
  ELSE NULL

\* A variant of botJokerSuit that takes the last started suit with a target.
botJokerSuitLast(sequences) ==
  LET ok(s) == /\ botTargetRank(sequences[s]) # NULL
               /\ botTargetRank(sequences[s]).rank # SEVEN
      hit == SelectSeq(startedSuits(sequences), ok)
  IN IF hit = <<>> THEN NULL ELSE [suit |-> hit[Len(hit)]]

\* The first started suit on which the joker branch plays, or NULL.
botJokerSuit(sequences) ==
  LET ok(s) == /\ botTargetRank(sequences[s]) # NULL
               /\ botTargetRank(sequences[s]).rank # SEVEN
      hit == SelectSeq(startedSuits(sequences), ok)
  IN IF hit = <<>> THEN NULL ELSE [suit |-> hit[1]]

\* Step 2: does the card at index i get played when the scan reaches it?
botPlays(c, sequences) ==
  IF ~isJoker(c)
    THEN (c.rank = SEVEN /\ ~sequences[c.suit].hasSeven) \/ canPlayOnBoard(c, sequences)
    ELSE botJokerSuit(sequences) # NULL

removeAt(s, i) == SubSeq(s, 1, i - 1) \o SubSeq(s, i + 1, Len(s))

\* Step 2 on the natural card c at index i (762-778).
botPlayNatural(st, i, c) ==
  IF c.rank = SEVEN /\ ~st.newSequences[c.suit].hasSeven
    THEN [st EXCEPT !.newSequences[c.suit].hasSeven = TRUE,
                    !.newHand = removeAt(@, i), !.played = TRUE,
                    !.move = "seven"]
    ELSE [st EXCEPT !.newSequences[c.suit] = extend(@, sortValue(c)),
                    !.newHand = removeAt(@, i), !.played = TRUE,
                    !.move = "extend"]

\* Step 2 on the joker c at index i, declared as targetRank of suit (793-806).
botPlayJoker(st, i, c, suit, targetRank) ==
  [st EXCEPT
     !.newSequences[suit] =
        IF getSortValue(targetRank) > @.high
          THEN [@ EXCEPT !.high = getSortValue(targetRank)]
          ELSE [@ EXCEPT !.low = getSortValue(targetRank)],
     !.newJokerDeclarations =
        Append(@, [cardId |-> c.n, representedSuit |-> suit,
                   representedRank |-> targetRank]),
     !.newHand = removeAt(@, i), !.played = TRUE, !.move = "joker"]

botJokerAt(st, i, c, suit) ==
  botPlayJoker(st, i, c, suit, botTargetRank(st.newSequences[suit]).rank)

botPlayCard(st, i) ==
  IF ~isJoker(st.newHand[i])
    THEN botPlayNatural(st, i, st.newHand[i])
    ELSE botJokerAt(st, i, st.newHand[i], botJokerSuit(st.newSequences).suit)

\* A variant of botMeld that takes only two of the melded cards out of the hand.
botMeldTakesTwo(st, meldCards) ==
  [st EXCEPT !.newMelds = Append(@, meldCards),
             !.newHand = withoutCards(@, SubSeq(meldCards, 1, 2)),
             !.played = TRUE, !.move = "meld"]

\* Step 1 when m is the rank to meld (746-755).
botMeld(st, meldCards) ==
  [st EXCEPT !.newMelds = Append(@, meldCards),
             !.newHand = withoutCards(@, meldCards),
             !.played = TRUE, !.move = "meld"]

\* Step 2: the scan plays the first card of the hand that can be played.
botScan(st, playable) ==
  IF playable # {}
    THEN botPlayCard(st, CHOOSE i \in playable : \A j \in playable : i <= j)
    ELSE [st EXCEPT !.played = FALSE, !.move = "none"]

botPass(st, m) ==
  IF m # NULL
    THEN botMeld(st, SubSeq(naturalMatchesOf(st.newHand, m.rank), 1, 3))
    ELSE botScan(st, {i \in 1..Len(st.newHand) : botPlays(st.newHand[i], st.newSequences)})

botStep(st) == botPass(st, meldRank(st.newHand))

\* The locals after every pass of while (played), the initial ones first.
RECURSIVE botTrace(_)
botTraceFrom(st, nxt) ==
  IF nxt.played THEN <<st>> \o botTrace(nxt) ELSE <<st, nxt>>

botTrace(st) == botTraceFrom(st, botStep(st))

botLocals(bot, sequences, jokerDeclarations) ==
  [newHand |-> bot.hand, newMelds |-> bot.melds, newSequences |-> sequences,
   newJokerDeclarations |-> jokerDeclarations, played |-> TRUE, move |-> "start"]

\* A variant of botDiscardIndex that takes the last card of maximum value.
botDiscardIndexLastMax(hand) ==
  CHOOSE i \in 1..Len(hand) :
    /\ \A j \in 1..Len(hand) : cardValue(hand[j]) <= cardValue(hand[i])
    /\ \A j \in (i + 1)..Len(hand) : cardValue(hand[j]) < cardValue(hand[i])

\* The index of the card the bot discards: the first card of maximum value.
botDiscardIndex(hand) ==
  CHOOSE i \in 1..Len(hand) :
    /\ \A j \in 1..Len(hand) : cardValue(hand[j]) <= cardValue(hand[i])
    /\ \A j \in 1..(i - 1) : cardValue(hand[j]) < cardValue(hand[i])

\* The knock of the bot (818-841); fin holds the locals the loop ended with.
botKnock(snap, botIdx, fin, updatedPlayers) ==
  /\ commitGame([gameState EXCEPT !.players = updatedPlayers,
                                  !.boardSequences = fin.newSequences,
                                  !.jokerDeclarations = fin.newJokerDeclarations,
                                  !.turnPhase = "ROUND_OVER",
                                  !.logs = "Bot Knocked!"])
  /\ roundSummary' = summaryOf(snap.players, updatedPlayers, botIdx)

\* A variant of botDiscard that puts the card under the discard pile.
botDiscardUnderPile(snap, botIdx, fin, deck, handDrawn, discardIndex) ==
  /\ gameState' =
       [gameState EXCEPT
          !.players[botIdx] = [@ EXCEPT !.hand = removeAt(handDrawn, discardIndex),
                                        !.melds = fin.newMelds],
          !.boardSequences = fin.newSequences,
          !.jokerDeclarations = fin.newJokerDeclarations,
          !.deck = deck,
          !.discardPile = @ \o <<handDrawn[discardIndex]>>,
          !.currentPlayerIndex = (botIdx + 1) % Cardinality(DOMAIN snap.players),
          !.logs = "Bot discarded",
          !.pendingPong = [card |-> handDrawn[discardIndex], discarderIndex |-> botIdx]]
  /\ effects' = effectsAfter(TRUE, TRUE, gameState', showPongModal, showPongModal,
                             pongTimer, pongTimer)
  /\ UNCHANGED roundSummary

\* A variant of botDiscard that passes the turn to the seat after the next.
botDiscardSkipsSeat(snap, botIdx, fin, deck, handDrawn, discardIndex) ==
  /\ gameState' =
       [gameState EXCEPT
          !.players[botIdx] = [@ EXCEPT !.hand = removeAt(handDrawn, discardIndex),
                                        !.melds = fin.newMelds],
          !.boardSequences = fin.newSequences,
          !.jokerDeclarations = fin.newJokerDeclarations,
          !.deck = deck,
          !.discardPile = <<handDrawn[discardIndex]>> \o @,
          !.currentPlayerIndex = (botIdx + 2) % Cardinality(DOMAIN snap.players),
          !.logs = "Bot discarded",
          !.pendingPong = [card |-> handDrawn[discardIndex], discarderIndex |-> botIdx]]
  /\ effects' = effectsAfter(TRUE, TRUE, gameState', showPongModal, showPongModal,
                             pongTimer, pongTimer)
  /\ UNCHANGED roundSummary

\* The discard of the bot (855-876) from the hand it holds after its draw.
botDiscard(snap, botIdx, fin, deck, handDrawn, discardIndex) ==
  /\ gameState' =
       [gameState EXCEPT
          !.players[botIdx] = [@ EXCEPT !.hand = removeAt(handDrawn, discardIndex),
                                        !.melds = fin.newMelds],
          !.boardSequences = fin.newSequences,
          !.jokerDeclarations = fin.newJokerDeclarations,
          !.deck = deck,
          !.discardPile = <<handDrawn[discardIndex]>> \o @,
          !.currentPlayerIndex = (botIdx + 1) % Cardinality(DOMAIN snap.players),
          !.logs = "Bot discarded",
          !.pendingPong = [card |-> handDrawn[discardIndex], discarderIndex |-> botIdx]]
  /\ effects' = effectsAfter(TRUE, TRUE, gameState', showPongModal, showPongModal,
                             pongTimer, pongTimer)
  /\ UNCHANGED roundSummary

\* A variant of botDiscardFrom that applies the loop and the draw and leaves
\* the discard to a later update.
botStopsBeforeDiscard(snap, botIdx, fin, deck, handDrawn) ==
  /\ commitGame([gameState EXCEPT
                   !.players[botIdx] = [@ EXCEPT !.hand = handDrawn, !.melds = fin.newMelds],
                   !.boardSequences = fin.newSequences,
                   !.jokerDeclarations = fin.newJokerDeclarations,
                   !.deck = deck,
                   !.logs = "Bot drew a card."])
  /\ UNCHANGED roundSummary

botDiscardFrom(snap, botIdx, fin, deck, handDrawn) ==
  botDiscard(snap, botIdx, fin, deck, handDrawn, botDiscardIndex(handDrawn))

\* A variant of botDraw that leaves the drawn card at the front of the deck.
botDrawKeepsDeck(snap, botIdx, fin) ==
  IF Len(snap.deck) > 0
    THEN botDiscardFrom(snap, botIdx, fin, snap.deck,
                        sortHand(Append(fin.newHand, Head(snap.deck))))
    ELSE botDiscardFrom(snap, botIdx, fin, snap.deck, fin.newHand)

\* The draw of the bot (843-853), then its discard.
botDraw(snap, botIdx, fin) ==
  IF Len(snap.deck) > 0
    THEN botDiscardFrom(snap, botIdx, fin, Tail(snap.deck),
                        sortHand(Append(fin.newHand, Head(snap.deck))))
    ELSE botDiscardFrom(snap, botIdx, fin, snap.deck, fin.newHand)

\* What botTurn does once the loop has ended with the locals fin.
botAfterLoop(snap, botIdx, fin) ==
  IF calculateHandPoints(fin.newHand) <= 5
    THEN botKnock(snap, botIdx, fin,
                  applyFinalScores([snap.players EXCEPT ![botIdx] =
                                      [@ EXCEPT !.hand = fin.newHand,
                                                !.melds = fin.newMelds]],
                                   botIdx, fin.newJokerDeclarations))
    ELSE botDraw(snap, botIdx, fin)

lastOf(s) == s[Len(s)]

\* botTurn after its timeout, for the closure that captured the snapshot snap.
\* newSequences is a shallow copy, so the BoardSequence objects the loop
\* updates in place are the ones the current gameState holds.
botTurn(snap) ==
  IF (snap.turnPhase # "ACTION" /\ snap.turnPhase # "DISCARD") \/ snap.pendingPong # NULL
    THEN UNCHANGED <<gameState, effects, roundSummary>>
    ELSE botAfterLoop(snap, snap.currentPlayerIndex,
                      lastOf(botTrace(botLocals(snap.players[snap.currentPlayerIndex],
                                                gameState.boardSequences,
                                                snap.jokerDeclarations))))

BotTurn ==
  /\ idle
  /\ botTimers # <<>>
  /\ botTurn(Head(botTimers))
  /\ botTimers' = Tail(botTimers)
  /\ UNCHANGED <<playerCount, roundsPlayed, showPongModal, pongTimer, showSingleJokerModal,
                 pendingSingleJokerMove, pendingMeldAction, probe>>

(***************************************************************************)
(* The game: a behaviour starts at the beginning of a round.               *)
(***************************************************************************)
freshGame(pc, t) ==
  newRound(pc, Tapes[t], [i \in 1..pc |-> 0], 0, 1, "Game started! Good luck.")

\* A later round of a game, with the scores carried into it.
CarriedRound == 2

laterRound(pc, t, scores) ==
  newRound(pc, Tapes[t], scores, (CarriedRound - 1) % pc, CarriedRound, "Round Started")

uiInit ==
  /\ showPongModal = FALSE
  /\ pongTimer = PONG_SECONDS
  /\ showSingleJokerModal = FALSE
  /\ pendingSingleJokerMove = NULL
  /\ pendingMeldAction = NULL
  /\ roundSummary = NULL
  /\ botTimers = <<>>
  /\ roundsPlayed = 0

Init ==
  /\ playerCount \in PlayerCounts
  /\ \E t \in 1..Len(Tapes) :
       /\ tapeFits(t, playerCount)
       /\ \/ gameState = freshGame(playerCount, t)
          \/ \E sc \in CarriedScores :
               Len(sc) = playerCount /\ gameState = laterRound(playerCount, t, sc)
  /\ uiInit
  /\ effects = effectsAfter(TRUE, FALSE, gameState, FALSE, FALSE, PONG_SECONDS, PONG_SECONDS)
  /\ probe = NoProbe

Next ==
  \/ PlaySelectedCards
  \/ ConfirmSingleJokerMove
  \/ CloseSingleJokerModal
  \/ ConfirmMeldWithJokers
  \/ CloseMeldModal
  \/ DrawCard
  \/ DiscardCard
  \/ HandleKnock
  \/ StartNextRound
  \/ StartGame
  \/ DoPong
  \/ CancelPong
  \/ Tick
  \/ RunEffects
  \/ BotTurn

Spec == Init /\ [][Next]_vars

(***************************************************************************)
(* Round-end scoring on its own: applyFinalScores applied to the players,  *)
(* knocker and declarations held by probe.  The game variables rest at a   *)
(* fixed value.                                                            *)
(***************************************************************************)
parked ==
  /\ playerCount = 2
  /\ gameState = freshGame(2, 1)
  /\ uiInit
  /\ effects = {}

gameVars == <<gameState, playerCount, roundsPlayed, showPongModal, pongTimer,
              showSingleJokerModal, pendingSingleJokerMove, pendingMeldAction,
              roundSummary, effects, botTimers>>

\* The hands, declarations and scores the scoring is exercised on.
ScoreHands ==
  { <<>>,
    <<mkCard(HEARTS, ACE, 0), mkCard(SPADES, "3", 0)>>,
    <<mkCard(DIAMONDS, "2", 0)>>,
    <<mkCard(HEARTS, "4", 0)>>,
    <<mkCard(HEARTS, "9", 0)>>,
    <<mkCard(HEARTS, "9", 0), mkCard(HEARTS, "9", 1), mkCard(CLUBS, SEVEN, 0)>>,
    <<mkCard(HEARTS, ACE, 1), mkCard(JOKER_SUIT, JOKER, 2)>>,
    <<mkCard(SPADES, "10", 0), mkCard(CLUBS, JACK, 0), mkCard(DIAMONDS, QUEEN, 0),
      mkCard(DIAMONDS, KING, 0)>> }

declaration(n, suit, rank) ==
  [cardId |-> n, representedSuit |-> suit, representedRank |-> rank]

ScoreDeclarations ==
  { <<>>,
    <<declaration(1, HEARTS, "9")>>,
    <<declaration(1, HEARTS, "9"), declaration(3, HEARTS, "9")>>,
    <<declaration(1, HEARTS, ACE), declaration(4, SPADES, "3")>> }

ScoreCarried == {0, 100}

ScorePlayerCounts == {2, 3}

probePlayers(hands, scores) ==
  [i \in 0..(Len(hands) - 1) |->
     [id |-> i, hand |-> hands[i + 1], score |-> scores[i + 1], melds |-> <<>>]]

\* The knocker is a player who may knock: hand points of 5 or less.
InitScore ==
  /\ parked
  /\ \E n \in ScorePlayerCounts :
       \E hands \in [1..n -> ScoreHands], scores \in [1..n -> ScoreCarried],
          k \in 0..(n - 1), d \in ScoreDeclarations :
         /\ calculateHandPoints(hands[k + 1]) <= 5
         /\ probe = [op |-> "scoring", players |-> probePlayers(hands, scores),
                     knockerIndex |-> k, jokerDeclarations |-> d]

ApplyFinalScores ==
  /\ probe.op = "scoring"
  /\ probe' = [op |-> "scored", players |-> probe.players,
               knockerIndex |-> probe.knockerIndex,
               jokerDeclarations |-> probe.jokerDeclarations,
               out |-> applyFinalScores(probe.players, probe.knockerIndex,
                                        probe.jokerDeclarations)]
  /\ UNCHANGED gameVars

SpecScore == InitScore /\ [][ApplyFinalScores]_vars

(***************************************************************************)
(* Properties of round-end scoring (SpecScore).                            *)
(***************************************************************************)
scored == probe.op = "scored"

\* The adjusted total of spec section 4.3: hand points plus 30 for each non-wild
\* card of the hand that matches some declaration.
pointsOf(hand) == sumOver([i \in 1..Len(hand) |-> getPoints(hand[i].rank)])

adjustedTotal(hand, jokerDeclarations) ==
  pointsOf(hand)
    + 30 * Cardinality({i \in 1..Len(hand) :
             /\ hand[i].rank # JOKER
             /\ \E d \in Range(jokerDeclarations) :
                  d.representedSuit = hand[i].suit /\ d.representedRank = hand[i].rank})

adjustedOf(i) == adjustedTotal(probe.players[i].hand, probe.jokerDeclarations)

gained(i) == probe.out[i].score - probe.players[i].score

undercutOccurs ==
  \E i \in DOMAIN probe.players :
    i # probe.knockerIndex /\ adjustedOf(i) <= adjustedOf(probe.knockerIndex)

\* C1: when some non-knocking player's adjusted total is <= the knocker's, the
\* knocker's score grows by the sum of all players' adjusted totals (its own
\* included) and every other player's score stays as it was; and the round is
\* scored that way only in that case.
C1_UndercutKnockerAbsorbsAll ==
  scored =>
    LET k == probe.knockerIndex
        others == DOMAIN probe.players \ {k}
        absorbed == /\ gained(k) = sumOver([i \in DOMAIN probe.players |-> adjustedOf(i)])
                    /\ \A i \in others : gained(i) = 0
    IN undercutOccurs <=> absorbed

\* The spec's example: knocker 4, opponent 2, knocker +6 and opponent +0.
C1_Witness ==
  /\ scored
  /\ undercutOccurs
  /\ DOMAIN probe.players = {0, 1}
  /\ adjustedOf(probe.knockerIndex) = 4
  /\ gained(probe.knockerIndex) = 6
  /\ \E i \in {0, 1} : i # probe.knockerIndex /\ adjustedOf(i) = 2 /\ gained(i) = 0

\* C2: when every non-knocking player's adjusted total is strictly greater than
\* the knocker's, every player's score (the knocker's too) grows by exactly
\* that player's own adjusted total.
C2_NoUndercutEachOwnTotal ==
  (scored /\ ~undercutOccurs) =>
    \A i \in DOMAIN probe.players : gained(i) = adjustedOf(i)

\* The spec's example: knocker 4, opponent 40, knocker +4 and opponent +40.
C2_Witness ==
  /\ scored
  /\ ~undercutOccurs
  /\ adjustedOf(probe.knockerIndex) = 4
  /\ gained(probe.knockerIndex) = 4
  /\ \E i \in DOMAIN probe.players :
       i # probe.knockerIndex /\ adjustedOf(i) = 40 /\ gained(i) = 40

\* C3: the points a round adds to the scores are the players' adjusted totals,
\* each the sum of the point values of the hand plus 30 for every non-wild card
\* of the hand equal in suit and rank to at least one declaration (once per
\* card, whoever declared, nothing extra for a wild card): without an undercut
\* each player gains its own adjusted total, with one the knocker gains them all.
C3_DeclaredIdentityPenalty ==
  scored =>
    /\ sumOver([i \in DOMAIN probe.players |-> gained(i)])
         = sumOver([i \in DOMAIN probe.players |-> adjustedOf(i)])
    /\ \A i \in DOMAIN probe.players :
         gained(i) \in {0, adjustedOf(i),
                        sumOver([j \in DOMAIN probe.players |-> adjustedOf(j)])}
    /\ \A i \in DOMAIN probe.players :
         adjustedOf(i) = roundScore(probe.players[i].hand, probe.jokerDeclarations)

\* A player holding two nine of hearts and a seven while two declarations name
\* the nine of hearts gains 9 + 9 + 15 + 2 * 30, and a player holding a wild
\* card gains 1 + 30 with no penalty on the wild card.
C3_Witness ==
  /\ scored
  /\ ~undercutOccurs
  /\ Len(probe.jokerDeclarations) = 2
  /\ \E i \in DOMAIN probe.players :
       /\ Len(probe.players[i].hand) = 3
       /\ isDeclared(probe.players[i].hand[1], probe.jokerDeclarations)
       /\ gained(i) = 93
  /\ \E i \in DOMAIN probe.players :
       /\ \E c \in Range(probe.players[i].hand) : isJoker(c)
       /\ gained(i) = 31

(***************************************************************************)
(* The end of a round on its own: the decision startNextRound takes on the *)
(* updatedPlayers of the round summary held by probe.                      *)
(***************************************************************************)
OverScores == {0, 249, 250, 300}

OverPlayerCounts == {2, 3}

InitRoundOver ==
  /\ parked
  /\ \E n \in OverPlayerCounts : \E scores \in [1..n -> OverScores] :
       probe = [op |-> "roundOver",
                updatedPlayers |-> probePlayers([i \in 1..n |-> <<>>], scores)]

LeaveRoundOver ==
  /\ probe.op = "roundOver"
  /\ probe' = [op |-> "left", updatedPlayers |-> probe.updatedPlayers,
               gameOver |-> isGameOver(probe.updatedPlayers),
               winner |-> IF isGameOver(probe.updatedPlayers)
                            THEN pickWinner(probe.updatedPlayers) ELSE NULL]
  /\ UNCHANGED gameVars

SpecRoundOver == InitRoundOver /\ [][LeaveRoundOver]_vars

\* C4: when the game is over the winner has the minimum cumulative score, and
\* among the players tied for the minimum it is the one with the lowest index.
C4_WinnerLowestIndexOfMinimum ==
  (probe.op = "left" /\ probe.gameOver) =>
    LET ps == probe.updatedPlayers
        least == {i \in DOMAIN ps : \A j \in DOMAIN ps : ps[i].score <= ps[j].score}
    IN /\ probe.winner.id \in least
       /\ \A i \in least : probe.winner.id <= i

(***************************************************************************)
(* The playability predicate on its own: canPlayOnBoard and                *)
(* getPlayableCards applied to the hand and board held by probe; the card  *)
(* canPlayOnBoard is asked about is the first card of the hand.            *)
(***************************************************************************)
\* What one suit's sequence may be.
ProbeSequences ==
  { [low |-> 7, high |-> 7, hasSeven |-> FALSE],
    [low |-> 7, high |-> 7, hasSeven |-> TRUE],
    [low |-> 6, high |-> 8, hasSeven |-> TRUE],
    [low |-> 5, high |-> 7, hasSeven |-> TRUE],
    [low |-> 7, high |-> 9, hasSeven |-> TRUE],
    [low |-> 1, high |-> 7, hasSeven |-> TRUE],
    [low |-> 7, high |-> 13, hasSeven |-> TRUE],
    [low |-> 1, high |-> 13, hasSeven |-> TRUE] }

\* Hearts and diamonds vary, clubs and spades are not started.
ProbeBoards ==
  { [initialSequences EXCEPT ![HEARTS] = h, ![DIAMONDS] = d] :
      h \in ProbeSequences, d \in ProbeSequences }

ProbeCards ==
  { mkCard(s, r, 0) : s \in {HEARTS, DIAMONDS, CLUBS}, r \in Range(RANKS) }
    \cup { mkCard(JOKER_SUIT, JOKER, 1) }

ProbeRests ==
  { <<>>, <<mkCard(HEARTS, "8", 1), mkCard(JOKER_SUIT, JOKER, 2)>> }

InitBoard ==
  /\ parked
  /\ \E c \in ProbeCards, rest \in ProbeRests, b \in ProbeBoards :
       probe = [op |-> "board", hand |-> <<c>> \o rest, sequences |-> b]

CanPlayOnBoard ==
  /\ probe.op = "board"
  /\ probe' = [op |-> "canPlayOnBoard", hand |-> probe.hand, sequences |-> probe.sequences,
               out |-> canPlayOnBoard(probe.hand[1], probe.sequences)]
  /\ UNCHANGED gameVars

GetPlayableCards ==
  /\ probe.op = "board"
  /\ probe' = [op |-> "getPlayableCards", hand |-> probe.hand,
               sequences |-> probe.sequences,
               out |-> getPlayableCards(probe.hand, probe.sequences)]
  /\ UNCHANGED gameVars

SpecBoard == InitBoard /\ [][CanPlayOnBoard \/ GetPlayableCards]_vars

someSuitStarted(sequences) == \E s \in Range(SUITS) : sequences[s].hasSeven

\* C7: canPlayOnBoard accepts a wild card iff some suit has its seven, and
\* getPlayableCards keeps the wild cards of a hand iff some suit has its seven.
C7_WildNeedsStartedSuit ==
  /\ (probe.op = "canPlayOnBoard" /\ probe.hand[1].rank = JOKER) =>
       (probe.out <=> someSuitStarted(probe.sequences))
  /\ probe.op = "getPlayableCards" =>
       \A c \in Range(probe.hand) :
         c.rank = JOKER => (c \in Range(probe.out) <=> someSuitStarted(probe.sequences))

\* C8: for a card that is not wild, canPlayOnBoard is true iff the card is a
\* seven and its suit has no seven yet, or it is not a seven, its suit has its
\* seven and the card's sort value is high + 1 or low - 1 of that suit.
C8_NaturalPlayability ==
  (probe.op = "canPlayOnBoard" /\ probe.hand[1].rank # JOKER) =>
    LET card == probe.hand[1]
        seq == probe.sequences[card.suit]
    IN probe.out <=>
         \/ card.rank = SEVEN /\ ~seq.hasSeven
         \/ /\ card.rank # SEVEN
            /\ seq.hasSeven
            /\ sortValue(card) \in {seq.high + 1, seq.low - 1}

\* A five is accepted below a sequence that runs from six to eight.
C8_Witness ==
  /\ probe.op = "canPlayOnBoard"
  /\ probe.hand[1].rank = "5"
  /\ probe.sequences[probe.hand[1].suit] = [low |-> 6, high |-> 8, hasSeven |-> TRUE]
  /\ probe.out = TRUE

(***************************************************************************)
(* Properties of the game (Spec).                                          *)
(***************************************************************************)
phase == gameState.turnPhase

ceilingReached == \E i \in DOMAIN gameState.players : gameState.players[i].score >= 250

\* C5: leaving ROUND_OVER leads to GAME_OVER exactly when some player's score is
\* 250 or more after the round's scoring, and otherwise to the first ACTION phase
\* of the next round; so no state in ACTION or DISCARD phase has a player at 250
\* or more.
C5_GameOverIffCeiling ==
  /\ [](phase \in {"ACTION", "DISCARD"} => ~ceilingReached)
  /\ [][(phase = "ROUND_OVER" /\ gameState'.turnPhase # "ROUND_OVER") =>
          IF ceilingReached
            THEN /\ gameState'.turnPhase = "GAME_OVER"
                 /\ gameState'.players = gameState.players
            ELSE /\ gameState'.turnPhase = "ACTION"
                 /\ gameState'.round = gameState.round + 1
                 /\ \A i \in DOMAIN gameState.players :
                      gameState'.players[i].score = gameState.players[i].score]_vars

C5_Witness ==
  /\ phase = "GAME_OVER"
  /\ ceilingReached
  /\ gameState.winner # NULL
  /\ roundSummary = NULL

knocker == gameState.players[roundSummary.knockerIndex]

boardSuits == Range(SUITS)

board == gameState.boardSequences

\* low <= 7 <= high on every started suit.
wellFormed(sequences) ==
  \A s \in boardSuits :
    sequences[s].hasSeven => sequences[s].low <= 7 /\ 7 <= sequences[s].high

width(sequences) == sumOver([s \in boardSuits |-> sequences[s].high - sequences[s].low])

\* b2 is b1 with one end of one started suit moved outward by one.
extendedByOne(b1, b2) ==
  \E s \in boardSuits :
    /\ \A t \in (DOMAIN b1) \ {s} : b2[t] = b1[t]
    /\ b1[s].hasSeven /\ b2[s].hasSeven
    /\ \/ b2[s].high = b1[s].high + 1 /\ b2[s].low = b1[s].low
       \/ b2[s].low = b1[s].low - 1 /\ b2[s].high = b1[s].high

\* b2 is b1 with one suit started by its seven.
startedBySeven(b1, b2) ==
  \E s \in boardSuits :
    ~b1[s].hasSeven /\ b2 = [b1 EXCEPT ![s].hasSeven = TRUE]

\* The passes of the greedy loop the waiting bot would make on the present board.
pendingTrace ==
  LET snap == Head(botTimers)
  IN botTrace(botLocals(snap.players[snap.currentPlayerIndex], board,
                        snap.jokerDeclarations))

botPassesOk ==
  botTimers # <<>> =>
    \A k \in 1..(Len(pendingTrace) - 1) :
      LET b1 == pendingTrace[k].newSequences
          b2 == pendingTrace[k + 1].newSequences
          move == pendingTrace[k + 1].move
      IN /\ wellFormed(b2)
         /\ move \in {"extend", "joker"} => extendedByOne(b1, b2)
         /\ move = "seven" => startedBySeven(b1, b2)
         /\ move \in {"meld", "none"} => b2 = b1

\* A card of the human left the hand for the board.
humanPlayedCard ==
  /\ Len(gameState'.players[0].hand) = Len(human.hand) - 1
  /\ gameState'.players[0].melds = human.melds
  /\ gameState'.discardPile = gameState.discardPile

\* What a step taken within a round may do to the board.
boardStep ==
  phase \in {"ACTION", "DISCARD"} =>
    IF botTimers # <<>> /\ botTimers' = Tail(botTimers)
      THEN gameState'.boardSequences
             \in {board, pendingTrace[Len(pendingTrace)].newSequences}
    ELSE IF humanPlayedCard
      THEN \/ /\ extendedByOne(board, gameState'.boardSequences)
              /\ width(gameState'.boardSequences) = width(board) + 1
           \/ startedBySeven(board, gameState'.boardSequences)
    ELSE gameState'.boardSequences = board

\* C9: on every started suit low <= 7 <= high; every card the human plays on the
\* board (natural or declared wild) either starts a suit with its seven or moves
\* exactly one end of exactly one suit outward by 1, and so does every pass of
\* the bot's loop that plays a card; no other step within a round changes the board.
C9_BoardInvariant ==
  /\ [](wellFormed(board) /\ botPassesOk)
  /\ [][boardStep]_vars

\* The bot has started hearts with its seven and declared its wild card as the
\* eight above it, and the human has then played the six below.
C9_Witness ==
  /\ board[HEARTS] = [low |-> 6, high |-> 8, hasSeven |-> TRUE]
  /\ width(board) = 2
  /\ gameState.jokerDeclarations
       = <<[cardId |-> 1, representedSuit |-> HEARTS, representedRank |-> "8"]>>
  /\ \A c \in Range(human.hand) : ~isJoker(c)
  /\ gameState.logs = "You played a card"

claimOnSevenWithWild ==
  /\ gameState.pendingPong # NULL
  /\ gameState.pendingPong.card.rank = SEVEN
  /\ Len(naturalMatchesOf(human.hand, SEVEN)) < 2

\* C10: a claim on a discarded seven that would use a wild card of the hand is
\* rejected: the claim window closes with no declaration dialog, no meld is
\* formed, hands, melds, discard pile and declarations stay as they were, and
\* the turn stays where it was.
C10_SevenClaimWithWildRejected ==
  [][(DoPong /\ claimOnSevenWithWild) =>
       /\ gameState'.players = gameState.players
       /\ gameState'.discardPile = gameState.discardPile
       /\ gameState'.jokerDeclarations = gameState.jokerDeclarations
       /\ gameState'.currentPlayerIndex = gameState.currentPlayerIndex
       /\ gameState'.turnPhase = gameState.turnPhase
       /\ gameState'.pendingPong = NULL
       /\ pendingMeldAction' = NULL
       /\ showPongModal' = FALSE]_vars

\* In a game of three, the human, holding a seven and a wild card, has claimed
\* the seven the first bot discarded; the claim has been rejected and the turn
\* is still the second bot's.
C10_Witness ==
  /\ gameState.logs = "Cannot use Joker to Pong a 7."
  /\ gameState.pendingPong = NULL
  /\ ~showPongModal
  /\ pendingMeldAction = NULL
  /\ gameState.currentPlayerIndex = 2
  /\ Head(gameState.discardPile).rank = SEVEN
  /\ Len(naturalMatchesOf(human.hand, SEVEN)) = 1
  /\ \E c \in Range(human.hand) : isJoker(c)
  /\ human.melds = <<>>

(***************************************************************************)
(* Claims (pong): the human is the only claimant, the bots never claim.    *)
(***************************************************************************)
\* doPong on a hand with two naturals of the discard's rank: the clean claim.
cleanClaim ==
  /\ gameState.pendingPong # NULL
  /\ Len(naturalMatchesOf(human.hand, gameState.pendingPong.card.rank)) >= 2
  /\ DoPong

\* confirmMeldWithJokers on the pending action of a claim that uses wild cards,
\* run to its end.  (On a claim of a discarded joker the handler throws, one
\* declaration short, and the claim is not accepted.)
wildClaim ==
  /\ pendingMeldAction # NULL
  /\ pendingMeldAction.type = "PONG"
  /\ Len(jokersOf(pendingMeldAction.cards)) = pendingMeldAction.jokersCount
  /\ ConfirmMeldWithJokers

claimAccepted == cleanClaim \/ wildClaim

claimedGroup == lastOf(gameState'.players[0].melds)

\* C11: every accepted claim (clean doPong, or confirmMeldWithJokers of a pending
\* PONG) appends one group of 3 cards to the claimant's melds, removes the top
\* card of the discard pile, makes the claimant the current player, sets the
\* phase to ACTION and clears the pending claim, all in that one step.
C11_ClaimTakesTheTurn ==
  [][claimAccepted =>
       /\ Len(gameState'.players[0].melds) = Len(human.melds) + 1
       /\ SubSeq(gameState'.players[0].melds, 1, Len(human.melds)) = human.melds
       /\ Len(claimedGroup) = 3
       /\ gameState.discardPile # <<>>
       /\ gameState'.discardPile = Tail(gameState.discardPile)
       /\ gameState'.currentPlayerIndex = 0
       /\ gameState'.turnPhase = "ACTION"
       /\ gameState'.pendingPong = NULL]_vars

\* In a game of three the human has claimed, with two naturals, the card the
\* first bot discarded: the group is the human's meld and the turn is the
\* human's, not the second bot's.
C11_Witness ==
  /\ Cardinality(DOMAIN gameState.players) = 3
  /\ gameState.logs = "You Ponged! Turn is yours."
  /\ Len(human.melds) = 1
  /\ Len(human.melds[1]) = 3
  /\ gameState.currentPlayerIndex = 0
  /\ gameState.turnPhase = "ACTION"
  /\ gameState.pendingPong = NULL

\* The cards of the hand that went into the claimed group.
claimedFromHand ==
  LET inGroup(c) == \E k \in 1..Len(claimedGroup) : cardId(claimedGroup[k]) = cardId(c)
  IN SelectSeq(human.hand, inGroup)

sameRankNaturals(hand, rank) ==
  {i \in 1..Len(hand) : hand[i].rank = rank /\ hand[i].rank # JOKER}

wildsIn(cards) == {i \in 1..Len(cards) : cards[i].rank = JOKER}

\* C12: every accepted claim is made by a player who did not discard the pending
\* card; its group is the pending discard (the top of the discard pile) and
\* exactly 2 cards that leave the claimant's hand; those 2 are naturals of the
\* discard's rank when the hand holds 2 or more of them, and otherwise wild
\* cards make up exactly the shortfall (1 natural and 1 wild, or 2 wilds).
C12_ClaimUsesTwoHandCards ==
  [][claimAccepted =>
       /\ gameState.pendingPong # NULL
       /\ gameState.pendingPong.discarderIndex # 0
       /\ gameState.pendingPong.card = Head(gameState.discardPile)
       /\ Cardinality({k \in 1..3 : claimedGroup[k] = gameState.pendingPong.card}) = 1
       /\ Len(claimedFromHand) = 2
       /\ gameState'.players[0].hand = withoutCards(human.hand, claimedFromHand)
       /\ Len(gameState'.players[0].hand) = Len(human.hand) - 2
       /\ \A k \in 1..2 : claimedFromHand[k].rank
                            \in {gameState.pendingPong.card.rank, JOKER}
       /\ LET held == Cardinality(sameRankNaturals(human.hand,
                                                   gameState.pendingPong.card.rank))
          IN Cardinality(wildsIn(claimedFromHand)) = IF held >= 2 THEN 0 ELSE 2 - held
       /\ \A i \in DOMAIN gameState.players :
            i # 0 => gameState'.players[i] = gameState.players[i]]_vars

\* The human, holding one natural of the discarded rank and a wild card, has
\* claimed a bot's discard with the two of them.
C12_Witness ==
  /\ gameState.logs = "You Ponged with Jokers"
  /\ Len(human.melds) = 1
  /\ Cardinality(wildsIn(human.melds[1])) = 1
  /\ \A k \in 1..3 : human.melds[1][k].rank \in {human.melds[1][3].rank, JOKER}
  /\ human.melds[1][3].rank # JOKER
  /\ gameState.pendingPong = NULL
  /\ gameState.currentPlayerIndex = 0

(***************************************************************************)
(* Melds and declarations.                                                 *)
(***************************************************************************)
allMelds ==
  UNION {Range(gameState.players[i].melds) : i \in DOMAIN gameState.players}

naturalRanksOf(group) == {group[k].rank : k \in {j \in 1..Len(group) : group[j].rank # JOKER}}

validGroup(group) ==
  /\ Len(group) = 3
  /\ Cardinality(naturalRanksOf(group)) <= 1
  /\ SEVEN \in naturalRanksOf(group) => wildsIn(group) = {}

\* C13: every group in every player's melds has exactly 3 cards, its cards that
\* are not wild share one rank, and a group of that rank seven holds no wild card.
C13_MeldValidity == \A g \in allMelds : validGroup(g)

\* The human has melded two naturals of one rank with a wild card.
C13_Witness ==
  /\ gameState.logs = "You melded with Jokers"
  /\ \E k \in 1..Len(human.melds) :
       /\ Cardinality(wildsIn(human.melds[k])) = 1
       /\ Cardinality(naturalRanksOf(human.melds[k])) = 1
       /\ Len(human.melds[k]) = 3

\* confirmMeldWithJokers run to its end on the pending meld or claim.
meldConfirmed ==
  /\ pendingMeldAction # NULL
  /\ Len(jokersOf(pendingMeldAction.cards)) = pendingMeldAction.jokersCount
  /\ ConfirmMeldWithJokers

\* The declarations a step appends.
recorded ==
  SubSeq(gameState'.jokerDeclarations, Len(gameState.jokerDeclarations) + 1,
         Len(gameState'.jokerDeclarations))

\* The suits are distinct from each other and from the suits of the group's naturals.
suitsApart(suits, group) ==
  /\ \A i, j \in 1..Len(suits) : i # j => suits[i] # suits[j]
  /\ \A i \in 1..Len(suits) :
       \A k \in 1..Len(group) : group[k].rank # JOKER => group[k].suit # suits[i]

\* C14: every accepted meld or claim with wild cards records one declaration per
\* wild card of the group, their suits pairwise distinct and none the suit of a
\* natural card of the group; the dialog cannot be confirmed with declarations
\* that break this, and while it is open no other step changes a hand, a meld,
\* the discard pile or the declarations.
C14_DeclaredSuitsApart ==
  /\ [][meldConfirmed =>
          /\ Len(recorded) = Cardinality(wildsIn(pendingMeldAction.cards))
          /\ \A k \in 1..Len(recorded) :
               recorded[k].cardId = jokersOf(pendingMeldAction.cards)[k].n
          /\ suitsApart([k \in 1..Len(recorded) |-> recorded[k].representedSuit],
                        pendingMeldAction.cards)
          /\ lastOf(gameState'.players[0].melds) = pendingMeldAction.cards]_vars
  /\ [](pendingMeldAction # NULL =>
          \A d \in declarationChoices(pendingMeldAction) :
            suitsApart([k \in 1..Len(d) |-> d[k].suit], pendingMeldAction.cards))
  /\ [][(pendingMeldAction # NULL /\ ~meldConfirmed) =>
          /\ gameState'.players = gameState.players
          /\ gameState'.discardPile = gameState.discardPile
          /\ gameState'.jokerDeclarations = gameState.jokerDeclarations]_vars

\* The human has melded a natural with two wild cards, declared in two suits
\* that are not the natural's.
C14_Witness ==
  /\ gameState.logs = "You melded with Jokers"
  /\ Len(human.melds) = 1
  /\ Cardinality(wildsIn(human.melds[1])) = 2
  /\ Len(gameState.jokerDeclarations) = 2
  /\ gameState.jokerDeclarations[1].representedSuit
       # gameState.jokerDeclarations[2].representedSuit
  /\ \A c \in Range(naturalsOf(human.melds[1])) :
       \A k \in 1..2 : gameState.jokerDeclarations[k].representedSuit # c.suit

declaredRanks ==
  {gameState.jokerDeclarations[k].representedRank :
     k \in 1..Len(gameState.jokerDeclarations)}

\* C15: no declaration represents the rank seven, whether it comes from a single
\* wild card played to the board by the human or a bot, from a meld with wild
\* cards (a meld of three wild cards with a nominated rank included) or from a
\* claim with wild cards; and no declaration that can be made in the present
\* state represents it.
C15_NoSevenDeclared ==
  /\ SEVEN \notin declaredRanks
  /\ \A o \in singleJokerOptions(board) : o[2] # SEVEN
  /\ \A s \in boardSuits :
       (board[s].hasSeven /\ botTargetRank(board[s]) # NULL)
         => botTargetRank(board[s]).rank # SEVEN
  /\ pendingMeldAction # NULL =>
       \A d \in declarationChoices(pendingMeldAction) :
         \A k \in 1..Len(d) : d[k].rank # SEVEN

\* The human has melded three wild cards and nominated the eight for them.
C15_Witness ==
  /\ Len(human.melds) = 1
  /\ Cardinality(wildsIn(human.melds[1])) = 3
  /\ Len(gameState.jokerDeclarations) = 3
  /\ declaredRanks = {"8"}

\* The ids (n) of the wild cards among cards.
wildIds(cards) == {cards[k].n : k \in wildsIn(cards)}

\* The wild cards that have not been played: in a hand, in the deck or in the
\* discard pile.
heldWilds ==
  UNION {wildIds(gameState.players[i].hand) : i \in DOMAIN gameState.players}
    \cup wildIds(gameState.deck) \cup wildIds(gameState.discardPile)

meldedWilds == UNION {wildIds(g) : g \in allMelds}

declarationsOf(n) ==
  {k \in 1..Len(gameState.jokerDeclarations) : gameState.jokerDeclarations[k].cardId = n}

\* C16: within a round each wild card id has at most one declaration, every
\* wild card inside a meld has exactly one, and no wild card that is in a hand,
\* in the deck or in the discard pile has any: a wild card is declared iff it
\* has been played.
C16_DeclaredIffPlayed ==
  /\ \A k \in 1..Len(gameState.jokerDeclarations) :
       Cardinality(declarationsOf(gameState.jokerDeclarations[k].cardId)) = 1
  /\ \A n \in meldedWilds : Cardinality(declarationsOf(n)) = 1
  /\ \A n \in heldWilds : declarationsOf(n) = {}

\* One wild card lies declared on the board, the other one was melded by the
\* human and declared with the meld.
C16_Witness ==
  /\ Len(gameState.jokerDeclarations) = 2
  /\ Cardinality(meldedWilds) = 1
  /\ heldWilds = {}
  /\ \E n \in {1, 2} : n \notin meldedWilds /\ Cardinality(declarationsOf(n)) = 1

(***************************************************************************)
(* Claims (single wild plays, melds of naturals, discards, empty deck)      *)
(***************************************************************************)
\* val is an extension point of suit s on b1, and b2 is b1 with that end of s
\* moved to val.
extendedTo(b1, b2, s, val) ==
  /\ b1[s].hasSeven
  /\ \/ val = b1[s].high + 1 /\ b2 = [b1 EXCEPT ![s].high = val]
     \/ val = b1[s].low - 1 /\ b2 = [b1 EXCEPT ![s].low = val]

\* The human confirms a single wild card in the "Declare Joker" modal.
singleWildPlayed == pendingSingleJokerMove # NULL /\ ConfirmSingleJokerMove

\* The hand h2 is the hand h1 without the wild card of id n.
wildLeft(h1, h2, n) ==
  /\ Len(h2) = Len(h1) - 1
  /\ \E i \in 1..Len(h1) : isJoker(h1[i]) /\ h1[i].n = n /\ h2 = removeAt(h1, i)

humanWildExtends ==
  singleWildPlayed =>
    LET d == lastOf(gameState'.jokerDeclarations)
    IN /\ gameState'.jokerDeclarations = Append(gameState.jokerDeclarations, d)
       /\ d.cardId = pendingSingleJokerMove.card.n
       /\ wildLeft(human.hand, gameState'.players[0].hand, d.cardId)
       /\ extendedTo(board, gameState'.boardSequences, d.representedSuit,
                     getSortValue(d.representedRank))

botWildExtends ==
  botTimers # <<>> =>
    \A k \in 1..(Len(pendingTrace) - 1) :
      LET st1 == pendingTrace[k]
          st2 == pendingTrace[k + 1]
          d == lastOf(st2.newJokerDeclarations)
      IN IF st2.move = "joker"
           THEN /\ st2.newJokerDeclarations = Append(st1.newJokerDeclarations, d)
                /\ wildLeft(st1.newHand, st2.newHand, d.cardId)
                /\ extendedTo(st1.newSequences, st2.newSequences, d.representedSuit,
                              getSortValue(d.representedRank))
           ELSE st2.newJokerDeclarations = st1.newJokerDeclarations

\* C17: every accepted single wild play, by the human in the "Declare Joker"
\* modal or by a bot in its greedy loop, declares a suit that has its seven and
\* a rank whose sort value is high + 1 or low - 1 of that suit before the play,
\* and moves that end of the sequence to that value; the wild card leaves the
\* hand and gets its declaration only together with that extension.
C17_SingleWildExtends ==
  /\ [][humanWildExtends]_vars
  /\ []botWildExtends

\* The human has just played a wild card as the 8 of hearts on 6..7 of hearts.
C17_Witness ==
  /\ gameState.logs = "You played Joker"
  /\ \E n \in {1, 2} :
       gameState.jokerDeclarations
         = <<[cardId |-> n, representedSuit |-> HEARTS, representedRank |-> "8"]>>
  /\ board[HEARTS].high = 8
  /\ \A c \in Range(human.hand) : ~isJoker(c)

\* The ids of the cards of a sequence of cards.
idsOf(cards) == {cardId(cards[k]) : k \in 1..Len(cards)}

\* g is a group of three natural cards with three different ids taken from the
\* hand h1, and h2 is h1 without exactly those three cards.
threeNaturalsLeave(h1, h2, g) ==
  /\ Len(g) = 3
  /\ \A k \in 1..3 : ~isJoker(g[k])
  /\ Cardinality(idsOf(g)) = 3
  /\ idsOf(g) \subseteq idsOf(h1)
  /\ Len(h2) = Len(h1) - 3
  /\ idsOf(h2) = idsOf(h1) \ idsOf(g)
  /\ Cardinality(idsOf(h2)) = Len(h2)

\* The human melds three naturals with "Play Selected".
humanMeldsNaturals ==
  /\ PlaySelectedCards
  /\ Len(gameState'.players[0].melds) = Len(human.melds) + 1

othersKept(idx) ==
  \A j \in DOMAIN gameState.players :
    j # idx => /\ gameState'.players[j].hand = gameState.players[j].hand
               /\ gameState'.players[j].melds = gameState.players[j].melds

humanMeldStep ==
  humanMeldsNaturals =>
    /\ gameState'.players[0].melds
         = Append(human.melds, lastOf(gameState'.players[0].melds))
    /\ threeNaturalsLeave(human.hand, gameState'.players[0].hand,
                          lastOf(gameState'.players[0].melds))
    /\ othersKept(0)
    /\ gameState'.boardSequences = gameState.boardSequences
    /\ gameState'.deck = gameState.deck
    /\ gameState'.discardPile = gameState.discardPile
    /\ gameState'.jokerDeclarations = gameState.jokerDeclarations

\* Every meld pass of the greedy loop of the waiting bot.
botMeldPasses ==
  botTimers # <<>> =>
    \A k \in 1..(Len(pendingTrace) - 1) :
      LET st1 == pendingTrace[k]
          st2 == pendingTrace[k + 1]
      IN st2.move = "meld" =>
           /\ st2.newMelds = Append(st1.newMelds, lastOf(st2.newMelds))
           /\ threeNaturalsLeave(st1.newHand, st2.newHand, lastOf(st2.newMelds))
           /\ st2.newSequences = st1.newSequences
           /\ st2.newJokerDeclarations = st1.newJokerDeclarations

\* What the bot's turn commits of its loop: its own melds are the ones the loop
\* ended with, the other players keep their hands and melds.
botTurnCommits ==
  (BotTurn /\ gameState' # gameState) =>
    /\ gameState'.players[Head(botTimers).currentPlayerIndex].melds
         = lastOf(pendingTrace).newMelds
    /\ othersKept(Head(botTimers).currentPlayerIndex)

\* C18: a meld of three natural cards, by the human with "Play Selected" or by
\* a bot in a pass of its greedy loop, removes exactly those three card ids from
\* the player's hand and appends one group of three to the player's melds: the
\* hand shrinks by three, no id is duplicated, and the board sequences, the
\* deck, the discard pile, the joker declarations and the other players' hands
\* and melds stay as they were.
C18_NaturalMeldMovesThreeCards ==
  /\ [][humanMeldStep]_vars
  /\ []botMeldPasses
  /\ [][botTurnCommits]_vars

\* The human has just melded three naturals of one rank.
C18_Witness ==
  /\ gameState.logs = "You melded three"
  /\ Len(human.melds) = 1
  /\ wildsIn(human.melds[1]) = {}
  /\ Cardinality(naturalRanksOf(human.melds[1])) = 1
  /\ idsOf(human.hand) \cap idsOf(human.melds[1]) = {}

\* The number of players of the game.
seats == Cardinality(DOMAIN gameState.players)

\* The hand h2 is the hand h1 without the one card c.
oneCardLeaves(h1, h2, c) ==
  /\ cardId(c) \in idsOf(h1)
  /\ Len(h2) = Len(h1) - 1
  /\ idsOf(h2) = idsOf(h1) \ {cardId(c)}

\* What every discard by the player at seat idx leaves behind, the hand the
\* card comes from being handBefore.
discarded(idx, handBefore) ==
  LET card == gameState'.pendingPong.card
  IN /\ gameState'.pendingPong = [card |-> card, discarderIndex |-> idx]
     /\ oneCardLeaves(handBefore, gameState'.players[idx].hand, card)
     /\ gameState'.discardPile = <<card>> \o gameState.discardPile
     /\ gameState'.currentPlayerIndex = (idx + 1) % seats
     /\ gameState'.turnPhase = "ACTION"
     /\ othersKept(idx)

\* The human discards in the DISCARD phase.
humanDiscards == DiscardCard /\ gameState.turnPhase = "DISCARD"

\* The bot's turn ends with its discard step (it did not knock).
botDiscards == BotTurn /\ gameState'.pendingPong # NULL

\* The hand the bot discards from: the hand its loop ended with, and the top of
\* the deck when there is one.
botHandDrawn ==
  IF Len(gameState.deck) > 0
    THEN Append(lastOf(pendingTrace).newHand, Head(gameState.deck))
    ELSE lastOf(pendingTrace).newHand

discardStep ==
  /\ humanDiscards => gameState.currentPlayerIndex = 0 /\ discarded(0, human.hand)
  /\ botDiscards =>
       /\ gameState.currentPlayerIndex = Head(botTimers).currentPlayerIndex
       /\ discarded(gameState.currentPlayerIndex, botHandDrawn)

humanDrawsOnEmptyDeck ==
  DrawCard /\ gameState.turnPhase = "ACTION" /\ Len(gameState.deck) = 0

\* A bot's turn runs while the deck is empty.
botTurnOnEmptyDeck ==
  /\ BotTurn
  /\ Head(botTimers).turnPhase \in {"ACTION", "DISCARD"}
  /\ Head(botTimers).pendingPong = NULL
  /\ Len(Head(botTimers).deck) = 0

emptyDeckStep ==
  /\ humanDrawsOnEmptyDeck =>
       /\ gameState'.turnPhase = "DISCARD"
       /\ gameState'.deck = gameState.deck
       /\ \A j \in DOMAIN gameState.players :
            gameState'.players[j].hand = gameState.players[j].hand
  /\ botTurnOnEmptyDeck =>
       /\ gameState'.deck = <<>>
       /\ \/ gameState'.turnPhase = "ROUND_OVER"
          \/ /\ calculateHandPoints(lastOf(pendingTrace).newHand) > 5
             /\ gameState'.pendingPong # NULL
             /\ discarded(Head(botTimers).currentPlayerIndex, lastOf(pendingTrace).newHand)

\* C20: when the deck is empty, the human's draw moves the phase from ACTION to
\* DISCARD and leaves the deck and every hand unchanged; a bot adds no card to
\* its hand and goes on to its discard from the hand its loop ended with
\* (unless it knocks before drawing).
C20_DeckExhausted == [][emptyDeckStep]_vars

\* The human has skipped the draw on an empty deck: the phase is DISCARD and
\* the last log line is not the one of a draw.
C20_Witness ==
  /\ gameState.turnPhase = "DISCARD"
  /\ Len(gameState.deck) = 0
  /\ gameState.currentPlayerIndex = 0
  /\ gameState.logs # "You drew a card."
  /\ Len(human.hand) > 0

(***************************************************************************)
(* Claims (illegal moves, deck, round start, claim window)                  *)
(***************************************************************************)
RejectionMessages ==
  {"Invalid move!", "Invalid Meld: ranks do not match.",
   "Invalid Meld: Joker cannot be used as a 7.",
   "Jokers cannot be played as 7s. No sequences to extend."}

\* The selection sel of the human's hand fails a legality check.
illegalSelection(sel) ==
  LET cards == selected(human.hand, sel)
      nats == naturalsOf(cards)
      wilds == jokersOf(cards)
      seq == board[cards[1].suit]
  IN \/ /\ Len(cards) = 1 /\ ~isJoker(cards[1])
        /\ ~(cards[1].rank = SEVEN /\ ~seq.hasSeven)
        /\ ~(seq.hasSeven /\ sortValue(cards[1]) \in {seq.high + 1, seq.low - 1})
     \/ Len(cards) = 1 /\ isJoker(cards[1]) /\ \A s \in boardSuits : ~board[s].hasSeven
     \/ Len(cards) = 2
     \/ Len(cards) > 3
     \/ Len(cards) = 3 /\ \E j, k \in 1..Len(nats) : nats[j].rank # nats[k].rank
     \/ /\ Len(cards) = 3 /\ Len(wilds) > 0 /\ Len(nats) > 0
        /\ \A k \in 1..Len(nats) : nats[k].rank = SEVEN

\* Nothing but the log line differs between the two states.
onlyLogged ==
  /\ [gameState' EXCEPT !.logs = gameState.logs] = gameState
  /\ gameState'.logs \in RejectionMessages
  /\ UNCHANGED uiVars

illegalMoveStep ==
  \A sel \in SUBSET (1..Len(human.hand)) :
    (/\ sel # {} /\ Cardinality(sel) <= MaxSelect
     /\ actionControls /\ illegalSelection(sel) /\ playSelectedCards(sel)) => onlyLogged

DeckPlayerCounts == 2..6

ShuffleLen == 4

\* The windows start at the first card, at the last ranked cards before the
\* jokers of deck 0, and at those jokers (followed by deck 1 when there is one).
ShuffleStarts == {1, 51, 53}

\* The sequences of values Math.floor(Math.random() * currentIndex) can take
\* in one run of shuffle on n cards: the k-th value is below n - k + 1.
randomTapes(n) == {t \in [1..n -> 0..(n - 1)] : \A k \in 1..n : t[k] <= n - k}

InitDeck ==
  /\ parked
  /\ \E pc \in DeckPlayerCounts, start \in ShuffleStarts :
       /\ start + ShuffleLen - 1 <= Len(buildDeck(pc))
       /\ probe = [op |-> "deck", playerCount |-> pc,
                   input |-> SubSeq(buildDeck(pc), start, start + ShuffleLen - 1)]

Shuffle ==
  /\ probe.op = "deck"
  /\ \E rnd \in randomTapes(Len(probe.input)) :
       probe' = [op |-> "shuffled", playerCount |-> probe.playerCount,
                 input |-> probe.input, out |-> shuffle(probe.input, rnd)]
  /\ UNCHANGED gameVars

SpecDeck == InitDeck /\ [][Shuffle]_vars

\* How many cards of the sequence cards have the id of c.
copiesOf(c, cards) == Cardinality({k \in 1..Len(cards) : cardId(cards[k]) = cardId(c)})

\* How many cards of suit s and rank r the deck number d put into cards.
builtBy(d, s, r, cards) ==
  Cardinality({k \in 1..Len(cards) :
                 cards[k].suit = s /\ cards[k].rank = r /\ deckOf(cards[k]) = d})

\* C22: for every player count in 2..6 the deck createDeck builds has 108 cards
\* when the count is 4 or more and 54 otherwise: each of the 4 suits x 13 ranks
\* once per deck and 2 wild cards per deck, every card with its own id; and
\* shuffle returns a permutation of its input (every id as often as before).
C22_DeckAndShuffle ==
  probe.op \in {"deck", "shuffled"} =>
    LET deck == buildDeck(probe.playerCount)
        numDecks == IF probe.playerCount >= 4 THEN 2 ELSE 1
    IN /\ Len(deck) = IF probe.playerCount >= 4 THEN 108 ELSE 54
       /\ Len(deck) = 54 * numDecks
       /\ \A d \in 0..(numDecks - 1) :
            /\ \A s \in Range(SUITS), r \in Range(RANKS) : builtBy(d, s, r, deck) = 1
            /\ builtBy(d, JOKER_SUIT, JOKER, deck) = 2
       /\ Cardinality(idsOf(deck)) = Len(deck)
       /\ probe.op = "shuffled" =>
            /\ Len(probe.out) = Len(probe.input)
            /\ \A k \in 1..Len(probe.input) :
                 copiesOf(probe.input[k], probe.out) = copiesOf(probe.input[k], probe.input)
            /\ \A k \in 1..Len(probe.out) :
                 copiesOf(probe.out[k], probe.out) = copiesOf(probe.out[k], probe.input)

\* A window with the two jokers of the first of two decks comes back in
\* another order.
C22_Witness ==
  /\ probe.op = "shuffled"
  /\ probe.playerCount = 6
  /\ Len(buildDeck(probe.playerCount)) = 108
  /\ probe.out # probe.input
  /\ isJoker(probe.input[1]) /\ isJoker(probe.input[2])
  /\ isJoker(probe.out[Len(probe.out)])

\* The cards a round of pc players starts with are enough for pc full hands:
\* so it is for the 54 or 108 cards of the source and its hands of 7.
fullDeal(pc) ==
  /\ 7 * pc <= Len(buildDeck(pc))
  /\ DealSize * pc <= Len(cardsInPlay(pc))

\* gs is the first state of a round of pc players: the cards of one fresh deck
\* are dealt, the table is cleared and the round's starting player is to act.
roundStart(gs, pc) ==
  LET handIds(i) == idsOf(gs.players[i].hand)
      seated == 0..(pc - 1)
  IN /\ DOMAIN gs.players = seated
     /\ \A i \in seated :
          /\ fullDeal(pc) => Len(gs.players[i].hand) = DealSize
          /\ Cardinality(handIds(i)) = Len(gs.players[i].hand)
          /\ gs.players[i].melds = <<>>
          /\ handIds(i) \cap idsOf(gs.deck) = {}
          /\ \A j \in seated : j # i => handIds(i) \cap handIds(j) = {}
     /\ Cardinality(idsOf(gs.deck)) = Len(gs.deck)
     /\ idsOf(gs.deck) \cup UNION {handIds(i) : i \in seated} = idsOf(cardsInPlay(pc))
     /\ \A s \in boardSuits :
          gs.boardSequences[s] = [low |-> 7, high |-> 7, hasSeven |-> FALSE]
     /\ gs.discardPile = <<>>
     /\ gs.pendingPong = NULL
     /\ gs.turnPhase = "ACTION"
     /\ gs.currentPlayerIndex = (gs.round - 1) % pc

\* "Next Round" on the round summary when the game goes on.
nextRoundStarts == StartNextRound /\ gameState'.turnPhase # "GAME_OVER"

roundStartStep ==
  /\ StartGame =>
       /\ gameState'.round = 1
       /\ roundStart(gameState', playerCount)
       /\ \A i \in DOMAIN gameState'.players : gameState'.players[i].score = 0
  /\ nextRoundStarts =>
       /\ gameState'.round = gameState.round + 1
       /\ roundStart(gameState', seats)
       /\ \A i \in DOMAIN gameState.players :
            gameState'.players[i].score = gameState.players[i].score

\* C23: at the start of every round (startGame for round 1, startNextRound
\* afterwards) every player holds a full hand (7 cards in the source, DealSize
\* here) and no melds, the deck holds the remaining cards of a freshly built
\* deck, every suit's sequence is low = high = 7 without its seven, the discard
\* pile is empty, no claim is pending, the phase is ACTION, the scores of the
\* previous round are carried over unchanged, and the starting player of round
\* r is (r - 1) mod the number of players.
C23_RoundStart ==
  /\ roundStart(gameState, playerCount)
  /\ [][roundStartStep]_vars

\* The third round of a game of two has just been dealt: the bot, at 245
\* points, keeps its score and the human starts.
C23_Witness ==
  /\ roundsPlayed = 1
  /\ gameState.round = CarriedRound + 1
  /\ gameState.logs = "Round Started"
  /\ seats = 2
  /\ gameState.currentPlayerIndex = CarriedRound % 2
  /\ gameState.players[1].score = 245
  /\ \A i \in DOMAIN gameState.players : Len(gameState.players[i].hand) = DealSize
  /\ Len(gameState.deck) = Len(cardsInPlay(2)) - 2 * DealSize

\* Somebody can act: some handler, timer or effect of the program can run.
\* (Past MaxRounds rounds the model explores no further.)
someoneCanAct == roundsPlayed < MaxRounds => ENABLED Next

\* C24: every pending claim is eventually cleared, by a successful claim, a
\* manual pass or the countdown's expiry, also when the human starts a claim
\* that needs wild declarations and then dismisses the declaration dialog: the
\* game is never in a state with a pending claim in which no player can act.
C24_ClaimWindowNeverStalls == gameState.pendingPong # NULL => someoneCanAct

(***************************************************************************)
(* The two passes of one claim window (SpecPass).  The Pass button and the  *)
(* countdown's expiry both call cancelPong, which does not look at          *)
(* pendingPong; SpecPass lets the second of them arrive after the first has *)
(* closed the window, before anything else has happened.                    *)
(***************************************************************************)
\* The last thing that happened is that a bot discarded a card the human could
\* claim, and the window that opened for it has been closed by a pass.
windowPassed ==
  /\ gameState.turnPhase = "ACTION"
  /\ gameState.logs = "Bot discarded"
  /\ gameState.pendingPong = NULL
  /\ ~showPongModal
  /\ pendingMeldAction = NULL
  /\ gameState.discardPile # <<>>
  /\ Len(naturalMatchesOf(human.hand, gameState.discardPile[1].rank))
       + Len(jokersOf(human.hand)) >= 2

\* cancelPong once more for the window that is already closed; a window gets
\* the two passes, so no third bot turn is ever waiting.
PassAgain ==
  /\ idle
  /\ windowPassed
  /\ Len(botTimers) <= 1
  /\ cancelPong(gameState.logs)
  /\ UNCHANGED <<playerCount, roundsPlayed, botTimers, probe>>

\* A botTurn waits 1 s on its timeout: the bot turns that are waiting run
\* before the human's next input and before the countdown's next tick.
timersFirst == botTimers # <<>> => (BotTurn \/ RunEffects)

NextPass == (Next /\ timersFirst) \/ PassAgain

SpecPass == Init /\ [][NextPass]_vars

\* C25: a pass is idempotent: a pass (the Pass button or the countdown's
\* expiry) that arrives when the pending claim is already cleared changes
\* nothing of the game and causes no additional bot turn to be scheduled or
\* applied, so the two passes of one window leave the game as a single pass
\* does: at most one bot turn is ever waiting, and no bot turn is applied
\* twice (which would put its discard on the pile twice).
C25_PassIdempotent ==
  /\ Len(botTimers) <= 1
  /\ Cardinality(idsOf(gameState.discardPile)) = Len(gameState.discardPile)

(***************************************************************************)
(* Claims (bot turn)                                                        *)
(***************************************************************************)
\* What a bot's turn can show of player i, of the board and of the declarations.
tableOf(gs) ==
  [hands |-> [i \in DOMAIN gs.players |-> gs.players[i].hand],
   melds |-> [i \in DOMAIN gs.players |-> gs.players[i].melds],
   board |-> gs.boardSequences,
   declarations |-> gs.jokerDeclarations]

\* The step applies the knock of the bot at seat b.
knockApplied(b) ==
  /\ gameState'.turnPhase = "ROUND_OVER"
  /\ roundSummary' # NULL
  /\ roundSummary'.knockerIndex = b

\* The step applies the discard of the bot at seat b.
discardApplied(b) ==
  /\ gameState'.pendingPong # NULL
  /\ gameState'.pendingPong.discarderIndex = b
  /\ gameState'.discardPile = <<gameState'.pendingPong.card>> \o gameState.discardPile
  /\ gameState'.currentPlayerIndex = (b + 1) % seats

\* A step that shows anything of a bot's turn is the one step that applies the
\* whole turn, and nobody but the bot's turn (and a new deal) touches a bot's
\* hand or melds.
botTurnStep ==
  /\ (BotTurn /\ gameState' # gameState) =>
       \/ knockApplied(Head(botTimers).currentPlayerIndex)
       \/ discardApplied(Head(botTimers).currentPlayerIndex)
  /\ (gameState.currentPlayerIndex # 0 /\ tableOf(gameState') # tableOf(gameState)) =>
       \/ BotTurn
       \/ claimAccepted
       \/ StartGame \/ StartNextRound
  /\ \A i \in DOMAIN gameState.players :
       (/\ i # 0
        /\ i \in DOMAIN gameState'.players
        /\ \/ gameState'.players[i].hand # gameState.players[i].hand
           \/ gameState'.players[i].melds # gameState.players[i].melds) =>
         (BotTurn /\ i = Head(botTimers).currentPlayerIndex) \/ StartGame \/ StartNextRound

\* While a bot's turn is waiting on its timeout the game shows what the turn
\* started from.
botTurnPending ==
  botTimers # <<>> =>
    /\ tableOf(gameState) = tableOf(Head(botTimers))
    /\ gameState.currentPlayerIndex = Head(botTimers).currentPlayerIndex
    /\ gameState.pendingPong = NULL

\* C26: a bot's whole turn (melds and plays, then knock or draw and discard) is
\* applied as one replacement of the game state: in no reachable state has a
\* bot's hand, its melds, the board or the declarations been changed by a bot's
\* turn whose discard or knock is not applied as well.
C26_BotTurnAtomic ==
  /\ []botTurnPending
  /\ [][botTurnStep]_vars

\* Bot 1 has played from its hand onto the board, drawn and discarded in one
\* step: its shorter hand and its discard are on the table together.
C26_Witness ==
  /\ gameState.logs = "Bot discarded"
  /\ gameState.pendingPong # NULL
  /\ gameState.pendingPong.discarderIndex = 1
  /\ gameState.discardPile[1] = gameState.pendingPong.card
  /\ gameState.deck # <<>>
  /\ Len(gameState.players[1].hand) < DealSize
  /\ gameState.players[1].melds = <<>>
  /\ startedSuits(gameState.boardSequences) # <<>>

\* s is the beginning of t.
isPrefix(s, t) == Len(s) <= Len(t) /\ SubSeq(t, 1, Len(s)) = s

\* C27: jokerDeclarations is append-only for the whole game: every transition,
\* the start of a new round included, leaves the previous list as a prefix of
\* the new list, so that a recorded declaration is never removed or altered.
C27_DeclarationsAppendOnly ==
  [][isPrefix(gameState.jokerDeclarations, gameState'.jokerDeclarations)]_vars

\* The hand the bot's greedy phase ends with.
handAfterLoop == lastOf(pendingTrace).newHand

\* The bot's hand, in hand order, once it has drawn.
heldInOrder == sortHand(botHandDrawn)

\* The first position of h that holds a card of the highest point value.
firstHighest(h) ==
  CHOOSE i \in 1..Len(h) :
    /\ \A j \in 1..Len(h) : getPoints(h[j].rank) <= getPoints(h[i].rank)
    /\ \A j \in 1..Len(h) : getPoints(h[j].rank) = getPoints(h[i].rank) => i <= j

\* The bot at seat b draws the front card of the deck, if there is one, keeps it
\* off the board and out of its melds, and discards its first highest card.
drawsAndDiscards(b) ==
  /\ gameState'.turnPhase = "ACTION"
  /\ gameState'.deck = IF gameState.deck = <<>> THEN <<>> ELSE Tail(gameState.deck)
  /\ gameState'.boardSequences = lastOf(pendingTrace).newSequences
  /\ gameState'.players[b].melds = lastOf(pendingTrace).newMelds
  /\ gameState'.pendingPong
       = [card |-> heldInOrder[firstHighest(heldInOrder)], discarderIndex |-> b]
  /\ gameState'.players[b].hand
       = SubSeq(heldInOrder, 1, firstHighest(heldInOrder) - 1)
           \o SubSeq(heldInOrder, firstHighest(heldInOrder) + 1, Len(heldInOrder))
  /\ gameState'.discardPile = <<gameState'.pendingPong.card>> \o gameState.discardPile

\* The bot at seat b knocks with the hand its greedy phase left.
knocksWith(b) ==
  /\ knockApplied(b)
  /\ gameState'.pendingPong = NULL
  /\ gameState'.deck = gameState.deck
  /\ gameState'.discardPile = gameState.discardPile
  /\ idsOf(gameState'.players[b].hand) = idsOf(handAfterLoop)

botEndsTurn ==
  (BotTurn /\ gameState' # gameState) =>
    IF pointsOf(handAfterLoop) <= 5
      THEN knocksWith(Head(botTimers).currentPlayerIndex)
      ELSE drawsAndDiscards(Head(botTimers).currentPlayerIndex)

\* C28: after its greedy phase a bot knocks iff the points of its remaining
\* hand are at most 5; otherwise it draws the front card of the deck when the
\* deck is not empty, does not play the drawn card, and discards the card of
\* maximum point value, the first in hand order on a tie, which opens the
\* pending claim for that discard.
C28_BotKnocksOrDiscards == [][botEndsTurn]_vars

\* Bot 1 has discarded one of two cards of the same highest value: the other is
\* still in its hand.
C28_Witness ==
  /\ gameState.logs = "Bot discarded"
  /\ gameState.pendingPong # NULL
  /\ gameState.pendingPong.discarderIndex = 1
  /\ gameState.turnPhase = "ACTION"
  /\ \E i \in 1..Len(gameState.players[1].hand) :
       getPoints(gameState.players[1].hand[i].rank)
         = getPoints(gameState.pendingPong.card.rank)
  /\ \A i \in 1..Len(gameState.players[1].hand) :
       getPoints(gameState.players[1].hand[i].rank)
         <= getPoints(gameState.pendingPong.card.rank)

(***************************************************************************)
(* The greedy loop of botTurn on its own: while (played) applied to the    *)
(* locals held by probe, one pass of the loop per step.                    *)
(***************************************************************************)
\* The cards the hands are made of, in hand order (sorted by sortValue).
BotPool ==
  << mkCard(HEARTS, "6", 0),
     mkCard(HEARTS, SEVEN, 0), mkCard(DIAMONDS, SEVEN, 0),
     mkCard(HEARTS, "8", 0), mkCard(DIAMONDS, "8", 0), mkCard(CLUBS, "8", 0),
     mkCard(HEARTS, KING, 0),
     mkCard(JOKER_SUIT, JOKER, 1), mkCard(JOKER_SUIT, JOKER, 2) >>

BotHandMax == 4

\* The cards of BotPool that are in the set cards, in hand order.
handOf(cards) == LET held(c) == c \in cards IN SelectSeq(BotPool, held)

BotHands ==
  { handOf(cards) : cards \in {x \in SUBSET Range(BotPool) : Cardinality(x) <= BotHandMax} }

\* Hearts is not started, started, has room at the low end only or is full;
\* diamonds is not started, started or full; clubs and spades are not started.
BotBoards ==
  { [initialSequences EXCEPT ![HEARTS] = h, ![DIAMONDS] = d] :
      h \in { [low |-> 7, high |-> 7, hasSeven |-> FALSE],
              [low |-> 7, high |-> 7, hasSeven |-> TRUE],
              [low |-> 7, high |-> 13, hasSeven |-> TRUE],
              [low |-> 1, high |-> 13, hasSeven |-> TRUE] },
      d \in { [low |-> 7, high |-> 7, hasSeven |-> FALSE],
              [low |-> 7, high |-> 7, hasSeven |-> TRUE],
              [low |-> 1, high |-> 13, hasSeven |-> TRUE] } }

InitBot ==
  /\ parked
  /\ \E hand \in BotHands, b \in BotBoards :
       probe = [op |-> "bot", start |-> hand, passes |-> 0,
                st |-> botLocals([hand |-> hand, melds |-> <<>>], b, <<>>)]

\* One pass of while (played).
BotLoop ==
  /\ probe.op = "bot"
  /\ probe.st.played
  /\ probe' = [probe EXCEPT !.st = botStep(probe.st), !.passes = @ + 1]
  /\ UNCHANGED gameVars

\* The loop is straight-line code: a pass that can run does run.
SpecBot == InitBot /\ [][BotLoop]_vars /\ WF_vars(BotLoop)

(***************************************************************************)
(* Claims (the bot's greedy loop, SpecBot)                                  *)
(***************************************************************************)
loopEnded == ~probe.st.played

\* A pass that melds or plays leaves the hand shorter.
handShrinks ==
  probe'.st.played => Len(probe'.st.newHand) < Len(probe.st.newHand)

loopBounded == probe.passes <= Len(probe.start) + 1

\* The suit s has its seven and room at one end.
hasRoom(sequences, s) ==
  sequences[s].hasSeven /\ (sequences[s].high < 13 \/ sequences[s].low > 1)

\* The natural card c can go on the board.
naturalPlayable(c, sequences) ==
  IF c.rank = SEVEN THEN ~sequences[c.suit].hasSeven
  ELSE /\ sequences[c.suit].hasSeven
       /\ \/ getSortValue(c.rank) = sequences[c.suit].high + 1
          \/ getSortValue(c.rank) = sequences[c.suit].low - 1

nothingLeftToPlay(hand, sequences) ==
  /\ \A r \in Range(RANKS) :
       Cardinality({i \in 1..Len(hand) : hand[i].rank = r}) < 3
  /\ \A i \in 1..Len(hand) :
       hand[i].rank # JOKER => ~naturalPlayable(hand[i], sequences)
  /\ (\E i \in 1..Len(hand) : hand[i].rank = JOKER) =>
       \A s \in Range(SUITS) : ~hasRoom(sequences, s)

loopExit == loopEnded => nothingLeftToPlay(probe.st.newHand, probe.st.newSequences)

\* C29: the bot's greedy loop terminates: every pass that plays or melds makes
\* the hand strictly shorter, so there are at most initial hand size plus one
\* passes; and when the loop exits nothing can be played: no rank has three or
\* more naturals in the hand, no natural card of the hand is playable, and a
\* wild card is left only if no started suit has room at either end.
C29_BotLoopTerminates ==
  /\ [](loopBounded /\ loopExit)
  /\ [][handShrinks]_vars
  /\ <>loopEnded

\* The loop has melded three eights and ended with a wild card in the hand,
\* the only started suit being full.
C29_Witness ==
  /\ probe.op = "bot"
  /\ loopEnded
  /\ probe.passes = 2
  /\ Len(probe.st.newMelds) = 1
  /\ \E i \in 1..Len(probe.st.newHand) : probe.st.newHand[i].rank = JOKER
  /\ \E s \in Range(SUITS) : probe.st.newSequences[s].hasSeven

\* No rank has three naturals in the hand: the pass does not meld.
noMeldAvailable(hand) ==
  \A r \in Range(RANKS) : Cardinality({i \in 1..Len(hand) : hand[i].rank = r}) < 3

\* The cards the pass took out of the hand.
playedInPass == Range(probe.st.newHand) \ Range(probe'.st.newHand)

holdsPlayableSeven(hand, sequences) ==
  \E i \in 1..Len(hand) : hand[i].rank = SEVEN /\ naturalPlayable(hand[i], sequences)

holdsPlayableNatural(hand, sequences) ==
  \E i \in 1..Len(hand) : hand[i].rank # JOKER /\ naturalPlayable(hand[i], sequences)

botPreference ==
  (probe' # probe /\ noMeldAvailable(probe.st.newHand)) =>
    /\ holdsPlayableSeven(probe.st.newHand, probe.st.newSequences) =>
         \E c \in playedInPass : c.rank = SEVEN
    /\ holdsPlayableNatural(probe.st.newHand, probe.st.newSequences) =>
         \E c \in playedInPass : c.rank # JOKER

\* C30: in every pass of the greedy loop in which no natural meld is available
\* the bot prefers a seven for a suit lacking its seven over any extension, and
\* a natural extension over a wild card: a hand that holds a playable seven
\* plays a seven in that pass, also when it holds a playable card that is not a
\* seven.
C30_BotPrefersSeven == [][botPreference]_vars

\* The pass took a wild card out of the hand.
wildPlayedInPass == \E c \in playedInPass : c.rank = JOKER

\* The first suit, in the order hearts, diamonds, clubs, spades, that has its
\* seven and room.
firstSuitWithRoom(sequences) ==
  SUITS[CHOOSE k \in 1..Len(SUITS) :
          /\ hasRoom(sequences, SUITS[k])
          /\ \A j \in 1..(k - 1) : ~hasRoom(sequences, SUITS[j])]

\* The sort value the wild card stands for on the sequence seq.
wildTarget(seq) == IF seq.high < 13 THEN seq.high + 1 ELSE seq.low - 1

\* The sequence seq with the end next to the sort value v moved onto v.
grownTo(seq, v) ==
  IF v = seq.high + 1 THEN [seq EXCEPT !.high = v] ELSE [seq EXCEPT !.low = v]

botWildPlacement ==
  (probe' # probe /\ wildPlayedInPass) =>
    /\ \E s \in Range(SUITS) : hasRoom(probe.st.newSequences, s)
    /\ Cardinality(playedInPass) = 1
    /\ probe'.st.newSequences =
         [probe.st.newSequences EXCEPT
            ![firstSuitWithRoom(probe.st.newSequences)] =
               grownTo(@, wildTarget(@))]
    /\ Len(probe'.st.newJokerDeclarations) = Len(probe.st.newJokerDeclarations) + 1
    /\ SubSeq(probe'.st.newJokerDeclarations, 1, Len(probe.st.newJokerDeclarations))
         = probe.st.newJokerDeclarations
    /\ lastOf(probe'.st.newJokerDeclarations).representedSuit
         = firstSuitWithRoom(probe.st.newSequences)
    /\ getSortValue(lastOf(probe'.st.newJokerDeclarations).representedRank)
         = wildTarget(probe.st.newSequences[firstSuitWithRoom(probe.st.newSequences)])
    /\ \E c \in playedInPass : lastOf(probe'.st.newJokerDeclarations).cardId = c.n

\* C31: a bot that plays a wild card to the board takes the first suit in the
\* order hearts, diamonds, clubs, spades that has its seven and room, declares
\* the rank next to the high end (high + 1) if high < 13 and the rank next to the
\* low end (low - 1) otherwise, extends exactly that end by one and records
\* exactly one declaration of that suit and rank.
C31_BotWildPlacement == [][botWildPlacement]_vars

\* The bot has played a wild card as the 6 of hearts below a sequence that was
\* full at the high end, with diamonds started as well.
C31_Witness ==
  /\ probe.op = "bot"
  /\ probe.st.move = "joker"
  /\ probe.st.newSequences[HEARTS] = [low |-> 6, high |-> 13, hasSeven |-> TRUE]
  /\ probe.st.newSequences[DIAMONDS].hasSeven
  /\ Len(probe.st.newJokerDeclarations) = 1
  /\ probe.st.newJokerDeclarations[1].representedSuit = HEARTS
  /\ probe.st.newJokerDeclarations[1].representedRank = "6"

(***************************************************************************)
(* Claims (bot wild cards, claim window, conservation; Spec)                *)
(***************************************************************************)
\* The hand is in the order of hand.sort: sort values never fall.
inSortOrder(hand) ==
  \A i \in 1..(Len(hand) - 1) : getSortValue(hand[i].rank) <= getSortValue(hand[i + 1].rank)

botHandsSorted ==
  \A i \in DOMAIN gameState.players : i # 0 => inSortOrder(gameState.players[i].hand)

\* Every pass of the waiting bot turn that plays a wild card starts from a hand
\* with nothing natural to meld or play.
wildPlayedLast ==
  botTimers # <<>> =>
    \A k \in 1..(Len(pendingTrace) - 1) :
      /\ inSortOrder(pendingTrace[k].newHand)
      /\ pendingTrace[k + 1].move = "joker" =>
           /\ noMeldAvailable(pendingTrace[k].newHand)
           /\ ~holdsPlayableNatural(pendingTrace[k].newHand, pendingTrace[k].newSequences)

\* C32: a bot plays a wild card to the board only in a pass of its greedy loop
\* in which its hand holds no rank with three or more naturals and no natural
\* card that is playable; the hands of the bots are sorted by sort value, wild
\* cards (99) last, whenever the loop scans them.
C32_BotWildOnlyWhenNothingNatural == botHandsSorted /\ wildPlayedLast

\* A bot turn is waiting whose loop first plays a natural card and then, with
\* nothing natural left to play, a wild card.
C32_Witness ==
  /\ botTimers # <<>>
  /\ gameState.pendingPong = NULL
  /\ \E k \in 2..(Len(pendingTrace) - 1) :
       /\ pendingTrace[k].move \in {"seven", "extend"}
       /\ pendingTrace[k + 1].move = "joker"

\* The pong modal opens in this step, closes in this step.
windowOpens == ~showPongModal /\ showPongModal'
windowLapses == showPongModal /\ ~showPongModal'

\* The countdown effect ends the window at 0, the count having run down from
\* the value the reset effect gave it.
countdownExpires ==
  /\ RunEffects
  /\ pongTimer = 0
  /\ "reset" \notin effects
  /\ gameState'.pendingPong = NULL

claimWindowStep ==
  /\ windowOpens =>
       \/ pongTimer' = PONG_SECONDS
       \/ "reset" \in effects' /\ "timer" \notin effects'
  /\ windowLapses => CancelPong \/ DoPong \/ countdownExpires
  /\ pongTimer' # pongTimer =>
       \/ pongTimer' = PONG_SECONDS /\ showPongModal /\ "reset" \in effects
       \/ pongTimer' = pongTimer - 1 /\ Tick

\* C33: every claim window that opens for the human, the first and every later
\* one, also one that opens after an earlier window ran out, starts its
\* countdown at 10 and lapses only by a manual pass, by a claim or after ten
\* ticks of one second; no window lapses in the step in which it opens.
C33_ClaimWindowCountsFromTen == [][claimWindowStep]_vars

\* The cards held in the deck, the hands, the discard pile and the melds, one
\* entry per place a card lies in.
RECURSIVE flatten(_)
flatten(groups) ==
  IF groups = <<>> THEN <<>> ELSE Head(groups) \o flatten(Tail(groups))

RECURSIVE heldFrom(_, _)
heldFrom(gs, i) ==
  IF i \notin DOMAIN gs.players THEN <<>>
  ELSE gs.players[i].hand \o flatten(gs.players[i].melds) \o heldFrom(gs, i + 1)

cardsHeld(gs) == gs.deck \o gs.discardPile \o heldFrom(gs, 0)

RECURSIVE meldCountFrom(_, _)
meldCountFrom(gs, i) ==
  IF i \notin DOMAIN gs.players THEN 0
  ELSE Len(gs.players[i].melds) + meldCountFrom(gs, i + 1)

RECURSIVE handCountFrom(_, _)
handCountFrom(gs, i) ==
  IF i \notin DOMAIN gs.players THEN 0
  ELSE Len(gs.players[i].hand) + handCountFrom(gs, i + 1)

\* The cards that lie on the board of suit s.
onBoard(sequences, s) ==
  IF sequences[s].hasSeven THEN sequences[s].high - sequences[s].low + 1 ELSE 0

cardsOnBoard(sequences) ==
  onBoard(sequences, HEARTS) + onBoard(sequences, DIAMONDS)
    + onBoard(sequences, CLUBS) + onBoard(sequences, SPADES)

cardTotal(gs) ==
  Len(gs.deck) + handCountFrom(gs, 0) + Len(gs.discardPile)
    + 3 * meldCountFrom(gs, 0) + cardsOnBoard(gs.boardSequences)

claimOnTopCard ==
  gameState.pendingPong # NULL =>
    /\ gameState.discardPile # <<>>
    /\ gameState.discardPile[1] = gameState.pendingPong.card
    /\ gameState.currentPlayerIndex = (gameState.pendingPong.discarderIndex + 1) % seats

\* A claim takes the claimed card, and only that card, off the discard pile and
\* puts it into the new meld.
claimTakesTopCard ==
  claimAccepted =>
    /\ gameState.pendingPong # NULL
    /\ gameState'.discardPile = Tail(gameState.discardPile)
    /\ Len(gameState'.players[0].melds) = Len(human.melds) + 1
    /\ cardId(gameState.pendingPong.card) \in idsOf(lastOf(gameState'.players[0].melds))
    /\ cardId(gameState.pendingPong.card) \notin idsOf(gameState'.discardPile)

\* C35: whenever the pending claim is not null its card is the top card of the
\* discard pile and currentPlayerIndex is (discarderIndex + 1) mod playerCount,
\* so that a claim removes from the discard pile exactly the card that is put
\* into the meld.
C35_ClaimIsForTopDiscard ==
  /\ []claimOnTopCard
  /\ [][claimTakesTopCard]_vars

\* The human has claimed Bot 1's discard with the pong modal; the card has left
\* the pile for the human's new meld.
C35_Witness ==
  /\ gameState.logs = "You Ponged! Turn is yours."
  /\ gameState.pendingPong = NULL
  /\ gameState.currentPlayerIndex = 0
  /\ Len(human.melds) >= 1
  /\ idsOf(lastOf(human.melds)) \cap idsOf(gameState.discardPile) = {}

\* The state a bot turn is applied to is, at that moment, one in which it is
\* that bot's turn to act, and the turn draws from the deck as it is.
botTurnOnLiveState ==
  (BotTurn /\ gameState' # gameState) =>
    /\ gameState.currentPlayerIndex = Head(botTimers).currentPlayerIndex
    /\ gameState.currentPlayerIndex # 0
    /\ gameState.turnPhase = "ACTION"
    /\ gameState.pendingPong = NULL
    /\ gameState.deck = Head(botTimers).deck
    /\ gameState.players = Head(botTimers).players

\* C36: a bot turn is applied only to a state in which, at the moment it is
\* applied, currentPlayerIndex is that bot's index (not 0), the phase is ACTION
\* and the pending claim is null; each time control reaches a bot exactly one
\* bot turn is applied, so that a delayed bot turn computed from an earlier
\* snapshot never overwrites a state that has changed since and never draws the
\* same deck card twice.
C36_OneBotTurnOnLiveState ==
  /\ [](Len(botTimers) <= 1)
  /\ [][botTurnOnLiveState]_vars

\* C37: whenever the phase is DISCARD the current player's hand holds at least
\* one card, so that the discard that ends the turn is possible and the turn
\* passes to the next player; also after a draw on an empty deck by a player
\* who has played every card of the hand.
C37_DiscardAlwaysPossible ==
  gameState.turnPhase = "DISCARD" =>
    Len(gameState.players[gameState.currentPlayerIndex].hand) >= 1

scoresOf(gs) == [i \in DOMAIN gs.players |-> gs.players[i].score]

\* The cards of the state gs: hands, melds, board, deck and discard pile.
cardsOf(gs) ==
  [hands |-> [i \in DOMAIN gs.players |-> gs.players[i].hand],
   melds |-> [i \in DOMAIN gs.players |-> gs.players[i].melds],
   board |-> gs.boardSequences, deck |-> gs.deck, discardPile |-> gs.discardPile]

roundIsOver(gs) == gs.turnPhase \in {"ROUND_OVER", "GAME_OVER"}

\* The knock: the one step of a round that enters ROUND_OVER.
knockStep == ~roundIsOver(gameState) /\ gameState'.turnPhase = "ROUND_OVER"

newDeal ==
  \/ StartNextRound /\ gameState'.turnPhase = "ACTION"
  \/ StartGame

scoringStep ==
  /\ scoresOf(gameState') # scoresOf(gameState) => knockStep \/ StartGame
  /\ knockStep =>
       /\ HandleKnock \/ BotTurn
       /\ roundSummary' # NULL
       /\ scoresOf(gameState') = [i \in DOMAIN gameState.players |->
                                    roundSummary'.updatedPlayers[i].score]
       /\ cardsOf(gameState') = cardsOf([gameState EXCEPT
                                           !.players = gameState'.players,
                                           !.boardSequences = gameState'.boardSequences])
  /\ (roundIsOver(gameState) /\ ~newDeal) =>
       /\ scoresOf(gameState') = scoresOf(gameState)
       /\ cardsOf(gameState') = cardsOf(gameState)
       /\ roundIsOver(gameState')
  /\ ~StartGame =>
       \A i \in DOMAIN gameState.players :
         gameState'.players[i].score >= gameState.players[i].score

resolveUndercut(players, knockerIndex) ==
  \E i \in DOMAIN players :
    /\ i # knockerIndex
    /\ calculateHandPoints(players[i].hand) <= calculateHandPoints(players[knockerIndex].hand)

\* roundPoints of player i: base points plus 30 for every declared card that
\* is not a joker (171-181, and 192-198 for the penalty).
resolveRoundPoints(hand, jokerDeclarations) ==
  calculateHandPoints(hand)
    + sumSeq([i \in 1..Len(hand) |->
               IF isDeclared(hand[i], jokerDeclarations) /\ ~isJoker(hand[i])
                 THEN 30 ELSE 0])

resolveRoundScores(players, knockerIndex, jokerDeclarations) ==
  LET roundPoints == [i \in DOMAIN players |->
                        resolveRoundPoints(players[i].hand, jokerDeclarations)]
      penalty == sumOver([i \in (DOMAIN players) \ {knockerIndex} |-> roundPoints[i]])
  IN [i \in DOMAIN players |->
        IF i # knockerIndex
          THEN [players[i] EXCEPT !.score = @ + roundPoints[i]]
        ELSE IF resolveUndercut(players, knockerIndex)
          THEN [players[i] EXCEPT !.score = @ + penalty]
        ELSE [players[i] EXCEPT !.score = @ + roundPoints[i]]]

\* Both implementations on the players, knocker and declarations of probe.
ScoreBothWays ==
  /\ probe.op = "scoring"
  /\ probe' = [op |-> "compared", players |-> probe.players,
               knockerIndex |-> probe.knockerIndex,
               jokerDeclarations |-> probe.jokerDeclarations,
               resolved |-> resolveRoundScores(probe.players, probe.knockerIndex,
                                               probe.jokerDeclarations),
               applied |-> applyFinalScores(probe.players, probe.knockerIndex,
                                            probe.jokerDeclarations)]
  /\ UNCHANGED gameVars

SpecBothScores == InitScore /\ [][ScoreBothWays]_vars

\* The undercut flags of the two implementations on the input of probe.
undercutResolved == resolveUndercut(probe.players, probe.knockerIndex)

undercutApplied ==
  isUndercut([i \in DOMAIN probe.players |->
                roundScore(probe.players[i].hand, probe.jokerDeclarations)],
             probe.knockerIndex)

othersAdjusted ==
  sumOver([i \in (DOMAIN probe.players) \ {probe.knockerIndex} |->
             adjustedTotal(probe.players[i].hand, probe.jokerDeclarations)])

allAdjusted ==
  sumOver([i \in DOMAIN probe.players |->
             adjustedTotal(probe.players[i].hand, probe.jokerDeclarations)])

\* C39: the two implementations of round scoring differ only in the amount of
\* the undercut penalty: on every input they agree on whether an undercut
\* occurs and on the resulting score of every player who did not knock, and the
\* knocker's resulting score differs only on an undercut, where
\* resolveRoundScores adds the adjusted totals of the other players and
\* applyFinalScores adds the adjusted totals of all players.
C39_ScoringsDifferInPenaltyOnly ==
  probe.op = "compared" =>
    /\ undercutResolved <=> undercutApplied
    /\ \A i \in (DOMAIN probe.players) \ {probe.knockerIndex} :
         probe.resolved[i].score = probe.applied[i].score
    /\ IF undercutApplied
         THEN /\ probe.resolved[probe.knockerIndex].score
                   = probe.players[probe.knockerIndex].score + othersAdjusted
              /\ probe.applied[probe.knockerIndex].score
                   = probe.players[probe.knockerIndex].score + allAdjusted
         ELSE probe.resolved[probe.knockerIndex].score
                = probe.applied[probe.knockerIndex].score

(***************************************************************************)
(* The game with the board near its ends: a behaviour starts at the        *)
(* beginning of a round, or in the middle of a round in which hearts has   *)
(* grown to within one card of the ace and the king and one player holds   *)
(* the ace and the king of hearts and a joker.                             *)
(***************************************************************************)
EdgeSequences ==
  { [low |-> 2, high |-> 12, hasSeven |-> TRUE],
    [low |-> 1, high |-> 12, hasSeven |-> TRUE],
    [low |-> 2, high |-> 13, hasSeven |-> TRUE] }

edgeHand ==
  << mkCard(HEARTS, ACE, 0), mkCard(HEARTS, KING, 0), mkCard(JOKER_SUIT, JOKER, 1) >>

otherHand == << mkCard(CLUBS, "9", 0), mkCard(DIAMONDS, "9", 0) >>

midRound(h, who) ==
  [freshGame(2, 1) EXCEPT
     !.players[who].hand = edgeHand,
     !.players[1 - who].hand = otherHand,
     !.deck = << mkCard(CLUBS, ACE, 0), mkCard(DIAMONDS, ACE, 0) >>,
     !.boardSequences[HEARTS] = h,
     !.currentPlayerIndex = who,
     !.logs = "You discarded"]

InitEdge ==
  /\ playerCount = 2
  /\ \E h \in EdgeSequences, who \in {0, 1} : gameState = midRound(h, who)
  /\ uiInit
  /\ effects = effectsAfter(TRUE, FALSE, gameState, FALSE, FALSE, PONG_SECONDS, PONG_SECONDS)
  /\ probe = NoProbe

InitAnywhere == Init \/ InitEdge

SpecEdge == InitAnywhere /\ [][Next]_vars

\* Every suit lies within ace..king, and a suit without its seven is at 7..7.
boardInRange ==
  \A s \in boardSuits :
    /\ 1 <= board[s].low
    /\ board[s].low <= board[s].high
    /\ board[s].high <= 13
    /\ ~board[s].hasSeven => board[s].low = 7 /\ board[s].high = 7

\* A seven on the board stays until the board is rebuilt.
sevenStays ==
  \A s \in boardSuits :
    (board[s].hasSeven /\ ~gameState'.boardSequences[s].hasSeven) =>
      StartNextRound \/ StartGame

\* C40: in every reachable state, for each of the four suits,
\* 1 <= low <= high <= 13, and low = high = 7 while hasSeven is false; once
\* hasSeven is true it stays true until the board is rebuilt at round start.  No
\* play of a human or a bot, natural or wild, moves low below 1 or high above 13.
C40_BoardWithinRange ==
  /\ []boardInRange
  /\ [][sevenStays]_vars

\* The human has played the ace and the king of hearts onto 2..12: hearts is
\* full and the wild card left in the hand has no place on it.
C40_Witness ==
  /\ board[HEARTS] = [low |-> 1, high |-> 13, hasSeven |-> TRUE]
  /\ human.hand = << mkCard(JOKER_SUIT, JOKER, 1) >>
  /\ gameState.currentPlayerIndex = 0
  /\ singleJokerOptions(board) = {}

====
